---- MODULE Spec2Model ----
(***************************************************************************)
(* A model of AASAgent (src/agent.py): the in-memory document (Shell,      *)
(* submodel mapping, concept-description mapping), its edit and query      *)
(* operations, JSON persistence and the execute_function dispatcher.       *)
(*                                                                         *)
(* The agent builds its document from basyx-python-sdk objects; what the   *)
(* model says about that library (the id_short pattern, the unique         *)
(* id_short per submodel, the datatype classes Int/Float/str/bool, the     *)
(* object store that refuses a second object with the same id, the XSD     *)
(* text of a value) is written at the call site that relies on it.         *)
(***************************************************************************)
EXTENDS Integers, Sequences, FiniteSets, TLC

VARIABLES
    aas,                   \* self.aas: the Shell, or NoAas for None
    submodels,             \* self.submodels: insertion-ordered dict, as a sequence
    concept_descriptions,  \* self.concept_descriptions: likewise
    conversation_history,  \* self.conversation_history
    files,                 \* the file system: path -> file content
    last                   \* the last call made and the text it returned

vars == <<aas, submodels, concept_descriptions, conversation_history, files, last>>

(***************************************************************************)
(* Bounds of the model.                                                    *)
(***************************************************************************)
\* Decimal texts "0" .. ToString(MaxNumber) are the integer literals of the model.
MaxNumber == 30
\* AddProperty is not taken once the document holds this many elements.
MaxElements == 2
\* process_message is not taken once the history holds this many entries.
MaxHistory == 4
\* The language model asks for at most this many tool calls in one response.
MaxToolCalls == 2

(***************************************************************************)
(* Python values. A value is a record of one shape: k is the class, n the  *)
(* number (an int; a float in tenths; 1/0 for a bool), s the text.         *)
(* Int and Float are basyx's datatypes.Int(int) and datatypes.Float(float);*)
(* datatypes.String is str and datatypes.Boolean is bool.                  *)
(***************************************************************************)
PyNone == [k |-> "NoneType", n |-> 0, s |-> ""]
PyStr(s) == [k |-> "str", n |-> 0, s |-> s]
PyInt(n) == [k |-> "int", n |-> n, s |-> ""]
PyFloat(tenths) == [k |-> "float", n |-> tenths, s |-> ""]
PyBool(b) == [k |-> "bool", n |-> IF b THEN 1 ELSE 0, s |-> ""]
\* A file name: a str kept as the sequence of its parts, <<"out", ".json">>.
PyPath(parts) == [k |-> "str", n |-> 0, s |-> "", path |-> parts]

\* The outcome of an expression that may raise: the value, or str(e) of the
\* exception.
Value(v) == [ok |-> TRUE, val |-> v, msg |-> ""]
Raise(msg) == [ok |-> FALSE, val |-> PyNone, msg |-> msg]

IntLiterals == 0..MaxNumber
FloatLiterals == 0..(10 * MaxNumber + 9)

\* repr of a float (given in tenths): "25.5", "30.0".
FloatRepr(tenths) == ToString(tenths \div 10) \o "." \o ToString(tenths % 10)

\* The decimal text of each integer and float literal of the model.
IntText == [i \in IntLiterals |-> ToString(i)]
FloatText == [t \in FloatLiterals |-> FloatRepr(t)]
IntTexts == {IntText[i] : i \in IntLiterals}
FloatTexts == {FloatText[t] : t \in FloatLiterals}

\* str(value), and the f-string rendering {value}.
str(v) ==
    CASE v.k = "str" -> v.s
      [] v.k \in {"int", "Int"} -> ToString(v.n)
      [] v.k \in {"float", "Float"} -> FloatRepr(v.n)
      [] v.k = "bool" -> IF v.n = 1 THEN "True" ELSE "False"
      [] OTHER -> "None"

\* str.lower() on the texts of the model (the others hold no upper-case letter).
lower(s) ==
    CASE s = "Yes" -> "yes"
      [] s = "True" -> "true"
      [] s = "False" -> "false"
      [] s = "None" -> "none"
      [] s = "FLOAT" -> "float"
      [] OTHER -> s

\* int(value): ValueError for a text that is no integer literal, TypeError for None.
int(v) ==
    CASE v.k = "str" ->
            IF v.s \in IntTexts
            THEN Value(PyInt(CHOOSE i \in IntLiterals : IntText[i] = v.s))
            ELSE Raise("invalid literal for int() with base 10: '" \o v.s \o "'")
      [] v.k \in {"int", "Int", "bool"} -> Value(PyInt(v.n))
      [] v.k \in {"float", "Float"} -> Value(PyInt(v.n \div 10))
      [] OTHER -> Raise("int() argument must be a string or a real number, not 'NoneType'")

\* float(value): accepts integer and decimal literals.
float(v) ==
    CASE v.k = "str" ->
            IF v.s \in FloatTexts
            THEN Value(PyFloat(CHOOSE t \in FloatLiterals : FloatText[t] = v.s))
            ELSE IF v.s \in IntTexts
            THEN Value(PyFloat(10 * (CHOOSE i \in IntLiterals : IntText[i] = v.s)))
            ELSE Raise("could not convert string to float: '" \o v.s \o "'")
      [] v.k \in {"int", "Int", "bool"} -> Value(PyFloat(10 * v.n))
      [] v.k \in {"float", "Float"} -> Value(PyFloat(v.n))
      [] OTHER ->
            Raise("float() argument must be a string or a real number, not 'NoneType'")

\* bool(value) alone: Python's truth value of the input.
boolean_Truth(v) ==
    Value(PyBool(CASE v.k = "str" -> v.s # ""
                   [] v.k = "NoneType" -> FALSE
                   [] OTHER -> v.n # 0))

\* bool(value) if isinstance(value, bool) else str(value).lower() in ('true','t','yes','1')
boolean(v) ==
    IF v.k = "bool" THEN Value(v)
    ELSE Value(PyBool(lower(str(v)) \in {"true", "t", "yes", "1"}))

\* type_map: the value_type tag (lower-cased by the caller) -> datatype class.
type_map ==
    [t \in {"string", "int", "float", "boolean"} |->
        CASE t = "string" -> "String"
          [] t = "int" -> "Int"
          [] t = "float" -> "Float"
          [] OTHER -> "Boolean"]

\* value_type.__name__ of a datatype class (String is str, Boolean is bool).
TypeName(value_type) ==
    CASE value_type = "String" -> "str"
      [] value_type = "Boolean" -> "bool"
      [] OTHER -> value_type

\* The conversion add_property picks by tag and update_property by class.
convert(value_type, value) ==
    CASE value_type = "Int" -> int(value)
      [] value_type = "Float" -> float(value)
      [] value_type = "Boolean" -> boolean(value)
      [] OTHER -> Value(PyStr(str(value)))

\* Property.value's setter: None, or datatypes.trivial_cast(value, value_type):
\* the value itself if it is an instance of the class, the class applied to it
\* if it is an instance of a base of the class, TypeError otherwise.
trivial_cast(value, value_type) ==
    CASE value.k = "NoneType" -> Value(PyNone)
      [] value.k = TypeName(value_type) -> Value(value)
      [] value_type = "Int" /\ value.k \in {"int", "bool"} ->
            Value([k |-> "Int", n |-> value.n, s |-> ""])
      [] value_type = "Float" /\ value.k = "float" ->
            Value([k |-> "Float", n |-> value.n, s |-> ""])
      [] value_type = "Boolean" /\ value.k \in {"int", "Int"} ->
            Value(PyBool(value.n # 0))
      [] value_type = "String" -> Value(PyStr(str(value)))
      [] OTHER -> Raise("cannot be trivially casted into " \o value_type)

\* Referable.id_short's setter: letters, digits and underscore, starting with a
\* letter (constraint AASd-002); of the model's names these two break it.
ValidIdShort(id_short) == id_short \notin {"bad name", "9lives"}

\* str(e) of the AASConstraintViolation the setter raises.
InvalidIdShort == "The id_short must contain only letters, digits and underscore"

(***************************************************************************)
(* The document.                                                           *)
(***************************************************************************)
\* self.aas = None
NoAas ==
    [present |-> FALSE, id |-> "", id_short |-> "", global_asset_id |-> "",
     asset_kind |-> "", submodel |-> {}]

\* "" stands for an absent (None) text: a semantic reference, a display name and
\* a description are only ever stored when the given text is non-empty.
NoText == ""

\* No JSON text: what every result but get_digital_twin_json's carries, and the
\* content of a path that holds no file.
NoJson ==
    [exists |-> FALSE, wellformed |-> FALSE, assetAdministrationShells |-> <<>>,
     submodels |-> <<>>, conceptDescriptions |-> <<>>]

\* What a handler returns: the prefix glyph of the text ("FAIL" for the cross
\* mark, "OK" for the check mark, "PIN" for the pin, "" for none), the message,
\* and the values the message shows.
Result(prefix, kind, out) ==
    [prefix |-> prefix, kind |-> kind, out |-> out, json |-> NoJson]
FAIL == "FAIL"
OK == "OK"
PIN == "PIN"

\* A handler's effect: the agent's fields and the file system after the call,
\* and the text returned.
Return(self, res) ==
    [aas |-> self.aas, submodels |-> self.submodels,
     concept_descriptions |-> self.concept_descriptions,
     files |-> self.files, res |-> res, raised |-> FALSE]

\* An exception that leaves the call instead of a text.
Raised(self, exception) ==
    [Return(self, Result("", exception, <<>>)) EXCEPT !.raised = TRUE]

\* A loop without the break: the index of the last submodel with the short
\* name, 0 for None.
FindSubmodel_Last(subs, submodel_id_short) ==
    IF \E i \in 1..Len(subs) : subs[i].id_short = submodel_id_short
    THEN CHOOSE i \in 1..Len(subs) :
            /\ subs[i].id_short = submodel_id_short
            /\ \A j \in (i + 1)..Len(subs) : subs[j].id_short # submodel_id_short
    ELSE 0

\* for sm in self.submodels.values(): if sm.id_short == submodel_id_short: break
\* The index of the first submodel with the short name, 0 for None.
FindSubmodel(subs, submodel_id_short) ==
    IF \E i \in 1..Len(subs) : subs[i].id_short = submodel_id_short
    THEN CHOOSE i \in 1..Len(subs) :
            /\ subs[i].id_short = submodel_id_short
            /\ \A j \in 1..(i - 1) : subs[j].id_short # submodel_id_short
    ELSE 0

\* submodel_element.get_object_by_attribute('id_short', name): the index of the
\* element, 0 where the library raises KeyError.
get_object_by_attribute(elements, property_name) ==
    IF \E i \in 1..Len(elements) : elements[i].id_short = property_name
    THEN CHOOSE i \in 1..Len(elements) : elements[i].id_short = property_name
    ELSE 0

\* self.<dict>[key] = entry on an insertion-ordered dict: an existing key keeps
\* its place and gets the new entry, a new key goes last.
DictSet(dict, entry) ==
    IF \E i \in 1..Len(dict) : dict[i].id = entry.id
    THEN [i \in 1..Len(dict) |-> IF dict[i].id = entry.id THEN entry ELSE dict[i]]
    ELSE Append(dict, entry)

DictKeys(dict) == {dict[i].id : i \in 1..Len(dict)}

\* create_aas that keeps a Shell the agent already has.
create_aas_KeepExisting(self, aas_id, id_short, global_asset_id) ==
    IF ~ValidIdShort(id_short)
    THEN Return(self, Result(FAIL, "Error creating AAS", <<InvalidIdShort>>))
    ELSE IF self.aas.present
    THEN Return(self, Result(OK, "Created AAS", <<id_short, aas_id>>))
    ELSE Return([self EXCEPT !.aas =
                    [present |-> TRUE, id |-> aas_id, id_short |-> id_short,
                     global_asset_id |-> global_asset_id, asset_kind |-> "INSTANCE",
                     submodel |-> {}]],
                Result(OK, "Created AAS", <<id_short, aas_id>>))

\* create_aas that starts a new document: it empties the two mappings too.
create_aas_NewDocument(self, aas_id, id_short, global_asset_id) ==
    IF ~ValidIdShort(id_short)
    THEN Return(self, Result(FAIL, "Error creating AAS", <<InvalidIdShort>>))
    ELSE Return([self EXCEPT !.aas =
                    [present |-> TRUE, id |-> aas_id, id_short |-> id_short,
                     global_asset_id |-> global_asset_id, asset_kind |-> "INSTANCE",
                     submodel |-> {}],
                    !.submodels = <<>>, !.concept_descriptions = <<>>],
                Result(OK, "Created AAS", <<id_short, aas_id>>))

create_aas(self, aas_id, id_short, global_asset_id) ==
    IF ~ValidIdShort(id_short)
    THEN Return(self, Result(FAIL, "Error creating AAS", <<InvalidIdShort>>))
    ELSE Return([self EXCEPT !.aas =
                    [present |-> TRUE, id |-> aas_id, id_short |-> id_short,
                     global_asset_id |-> global_asset_id, asset_kind |-> "INSTANCE",
                     submodel |-> {}]],
                Result(OK, "Created AAS", <<id_short, aas_id>>))

\* add_submodel that renames a submodel whose id the mapping holds, and keeps
\* its elements.
add_submodel_Rename(self, submodel_id, id_short) ==
    IF ~self.aas.present
    THEN Return(self, Result(FAIL, "No AAS exists. Please create an AAS first.", <<>>))
    ELSE IF ~ValidIdShort(id_short)
    THEN Return(self, Result(FAIL, "Error adding submodel", <<InvalidIdShort>>))
    ELSE IF submodel_id \in DictKeys(self.submodels)
    THEN Return([self EXCEPT !.submodels =
                    [i \in 1..Len(@) |->
                        IF @[i].id = submodel_id THEN [@[i] EXCEPT !.id_short = id_short]
                        ELSE @[i]]],
                Result(OK, "Added submodel", <<id_short>>))
    ELSE Return([self EXCEPT
                    !.submodels = Append(@, [id |-> submodel_id, id_short |-> id_short,
                                             submodel_element |-> <<>>]),
                    !.aas.submodel = @ \cup {submodel_id}],
                Result(OK, "Added submodel", <<id_short>>))

\* add_submodel that stores the submodel and gives the Shell no reference.
add_submodel_NoReference(self, submodel_id, id_short) ==
    IF ~self.aas.present
    THEN Return(self, Result(FAIL, "No AAS exists. Please create an AAS first.", <<>>))
    ELSE IF ~ValidIdShort(id_short)
    THEN Return(self, Result(FAIL, "Error adding submodel", <<InvalidIdShort>>))
    ELSE Return([self EXCEPT
                    !.submodels = DictSet(@, [id |-> submodel_id, id_short |-> id_short,
                                             submodel_element |-> <<>>])],
                Result(OK, "Added submodel", <<id_short>>))

\* add_submodel without the test of self.aas.
add_submodel_NoShellTest(self, submodel_id, id_short) ==
    IF ~ValidIdShort(id_short)
    THEN Return(self, Result(FAIL, "Error adding submodel", <<InvalidIdShort>>))
    ELSE Return([self EXCEPT
                    !.submodels = DictSet(@, [id |-> submodel_id, id_short |-> id_short,
                                             submodel_element |-> <<>>]),
                    !.aas.submodel = @ \cup {submodel_id}],
                Result(OK, "Added submodel", <<id_short>>))

add_submodel(self, submodel_id, id_short) ==
    IF ~self.aas.present
    THEN Return(self, Result(FAIL, "No AAS exists. Please create an AAS first.", <<>>))
    ELSE IF ~ValidIdShort(id_short)
    THEN Return(self, Result(FAIL, "Error adding submodel", <<InvalidIdShort>>))
    ELSE Return([self EXCEPT
                    !.submodels = DictSet(@, [id |-> submodel_id, id_short |-> id_short,
                                             submodel_element |-> <<>>]),
                    !.aas.submodel = @ \cup {submodel_id}],
                Result(OK, "Added submodel", <<id_short>>))

\* str(e) of the exception NamespaceSet.add raises for a second element with an
\* id_short the submodel already holds, and of the KeyError that
\* get_object_by_attribute raises for a name the submodel does not hold.
AlreadyPresent(id_short) ==
    "Object with attribute (name='id_short', value='" \o id_short
    \o "') is already present in this set of objects"

KeyError(key) == "'" \o key \o "'"

\* model.Property(id_short, value_type, value), then the semantic reference.
Property(property_name, value_type, value, semantic_id) ==
    [model_type |-> "Property", id_short |-> property_name, value_type |-> value_type,
     value |-> value, semantic_id |-> semantic_id]

\* add_property that looks the type up before it looks for the submodel.
add_property_TypeFirst(self, submodel_id_short, property_name, value_type, value, semantic_id) ==
    LET sm == FindSubmodel(self.submodels, submodel_id_short)
        tag == lower(value_type)
        known == tag \in DOMAIN type_map
        value_type_obj == IF known THEN type_map[tag] ELSE "None"
        converted == IF value.k = "NoneType" THEN Value(PyNone)
                     ELSE convert(value_type_obj, value)
        cast == trivial_cast(converted.val, value_type_obj)
        elements == self.submodels[sm].submodel_element
    IN  IF ~known
        THEN Return(self, Result(FAIL, "Invalid value type", <<value_type>>))
        ELSE IF sm = 0
        THEN Return(self, Result(FAIL, "Submodel not found", <<submodel_id_short>>))
        ELSE IF ~converted.ok \/ ~ValidIdShort(property_name) \/ ~cast.ok
                \/ get_object_by_attribute(elements, property_name) # 0
        THEN Return(self, Result(FAIL, "Error adding property", <<converted.msg>>))
        ELSE Return([self EXCEPT !.submodels[sm].submodel_element =
                        Append(@, Property(property_name, value_type_obj, cast.val,
                                           semantic_id))],
                    Result(OK, "Added property", <<property_name>>))

\* add_property on a collection that takes a second element of a name.
add_property_Again(self, submodel_id_short, property_name, value_type, value, semantic_id) ==
    LET sm == FindSubmodel(self.submodels, submodel_id_short)
        tag == lower(value_type)
        known == tag \in DOMAIN type_map
        value_type_obj == IF known THEN type_map[tag] ELSE "None"
        converted == IF value.k = "NoneType" THEN Value(PyNone)
                     ELSE convert(value_type_obj, value)
        cast == trivial_cast(converted.val, value_type_obj)
    IN  IF sm = 0
        THEN Return(self, Result(FAIL, "Submodel not found", <<submodel_id_short>>))
        ELSE IF ~known
        THEN Return(self, Result(FAIL, "Invalid value type", <<value_type>>))
        ELSE IF ~converted.ok \/ ~ValidIdShort(property_name) \/ ~cast.ok
        THEN Return(self, Result(FAIL, "Error adding property", <<converted.msg>>))
        ELSE Return([self EXCEPT !.submodels[sm].submodel_element =
                        Append(@, Property(property_name, value_type_obj, cast.val,
                                           semantic_id))],
                    Result(OK, "Added property", <<property_name>>))

add_property(self, submodel_id_short, property_name, value_type, value, semantic_id) ==
    LET sm == FindSubmodel(self.submodels, submodel_id_short)
        tag == lower(value_type)
        known == tag \in DOMAIN type_map
        value_type_obj == IF known THEN type_map[tag] ELSE "None"
        converted == IF value.k = "NoneType" THEN Value(PyNone)
                     ELSE convert(value_type_obj, value)
        cast == trivial_cast(converted.val, value_type_obj)
        elements == self.submodels[sm].submodel_element
    IN  IF sm = 0
        THEN Return(self, Result(FAIL, "Submodel not found", <<submodel_id_short>>))
        ELSE IF ~known
        THEN Return(self, Result(FAIL, "Invalid value type", <<value_type>>))
        ELSE IF ~converted.ok
        THEN Return(self, Result(FAIL, "Error adding property", <<converted.msg>>))
        ELSE IF ~ValidIdShort(property_name)
        THEN Return(self, Result(FAIL, "Error adding property", <<InvalidIdShort>>))
        ELSE IF ~cast.ok
        THEN Return(self, Result(FAIL, "Error adding property", <<cast.msg>>))
        ELSE IF get_object_by_attribute(elements, property_name) # 0
        THEN Return(self, Result(FAIL, "Error adding property",
                                 <<AlreadyPresent(property_name)>>))
        ELSE Return([self EXCEPT !.submodels[sm].submodel_element =
                        Append(@, Property(property_name, value_type_obj, cast.val,
                                           semantic_id))],
                    Result(OK, "Added property",
                           <<property_name, value_type, submodel_id_short>>
                           \o (IF converted.val.k = "NoneType" THEN <<>>
                               ELSE <<str(converted.val)>>)
                           \o (IF semantic_id = NoText THEN <<>> ELSE <<semantic_id>>)))

\* update_property that empties the value before it converts the new one.
update_property_ClearFirst(self, submodel_id_short, property_name, value) ==
    LET sm == FindSubmodel(self.submodels, submodel_id_short)
        elements == self.submodels[sm].submodel_element
        i == get_object_by_attribute(elements, property_name)
        property_elem == elements[i]
        converted == convert(property_elem.value_type, value)
        cast == trivial_cast(converted.val, property_elem.value_type)
        cleared == [self EXCEPT !.submodels[sm].submodel_element[i].value = PyNone]
    IN  IF sm = 0
        THEN Return(self, Result(FAIL, "Submodel not found", <<submodel_id_short>>))
        ELSE IF i = 0
        THEN Return(self, Result(FAIL, "Error updating property",
                                 <<KeyError(property_name)>>))
        ELSE IF ~converted.ok
        THEN Return(cleared, Result(FAIL, "Error updating property", <<converted.msg>>))
        ELSE IF ~cast.ok
        THEN Return(cleared, Result(FAIL, "Error updating property", <<cast.msg>>))
        ELSE Return([self EXCEPT !.submodels[sm].submodel_element[i].value = cast.val],
                    Result(OK, "Updated",
                           <<property_name, str(property_elem.value), str(cast.val)>>))

\* update_property that declares the property anew, by the class of the value
\* given.
update_property_Retype(self, submodel_id_short, property_name, value) ==
    LET sm == FindSubmodel(self.submodels, submodel_id_short)
        elements == self.submodels[sm].submodel_element
        i == get_object_by_attribute(elements, property_name)
        value_type == CASE value.k = "bool" -> "Boolean"
                        [] value.k = "float" -> "Float"
                        [] value.k = "int" -> "Int"
                        [] OTHER -> "String"
        cast == trivial_cast(convert(value_type, value).val, value_type)
    IN  IF sm = 0
        THEN Return(self, Result(FAIL, "Submodel not found", <<submodel_id_short>>))
        ELSE IF i = 0
        THEN Return(self, Result(FAIL, "Error updating property",
                                 <<KeyError(property_name)>>))
        ELSE Return([self EXCEPT !.submodels[sm].submodel_element[i].value_type = value_type,
                                 !.submodels[sm].submodel_element[i].value = cast.val],
                    Result(OK, "Updated",
                           <<property_name, str(elements[i].value), str(cast.val)>>))

\* update_property that stores the value as it was given.
update_property_AsGiven(self, submodel_id_short, property_name, value) ==
    LET sm == FindSubmodel(self.submodels, submodel_id_short)
        elements == self.submodels[sm].submodel_element
        i == get_object_by_attribute(elements, property_name)
        property_elem == elements[i]
    IN  IF sm = 0
        THEN Return(self, Result(FAIL, "Submodel not found", <<submodel_id_short>>))
        ELSE IF i = 0
        THEN Return(self, Result(FAIL, "Error updating property",
                                 <<KeyError(property_name)>>))
        ELSE Return([self EXCEPT !.submodels[sm].submodel_element[i].value = value],
                    Result(OK, "Updated",
                           <<property_name, str(property_elem.value), str(value)>>))

update_property(self, submodel_id_short, property_name, value) ==
    LET sm == FindSubmodel(self.submodels, submodel_id_short)
        elements == self.submodels[sm].submodel_element
        i == get_object_by_attribute(elements, property_name)
        property_elem == elements[i]
        converted == convert(property_elem.value_type, value)
        cast == trivial_cast(converted.val, property_elem.value_type)
    IN  IF sm = 0
        THEN Return(self, Result(FAIL, "Submodel not found", <<submodel_id_short>>))
        ELSE IF i = 0
        THEN Return(self, Result(FAIL, "Error updating property",
                                 <<KeyError(property_name)>>))
        ELSE IF property_elem.model_type # "Property"
        THEN Return(self, Result(FAIL, "Element is not a Property", <<property_name>>))
        ELSE IF ~converted.ok
        THEN Return(self, Result(FAIL, "Error updating property", <<converted.msg>>))
        ELSE IF ~cast.ok
        THEN Return(self, Result(FAIL, "Error updating property", <<cast.msg>>))
        ELSE Return([self EXCEPT !.submodels[sm].submodel_element[i].value = cast.val],
                    Result(OK, "Updated",
                           <<property_name, str(property_elem.value), str(cast.val)>>))

get_property_value(self, submodel_id_short, property_name) ==
    LET sm == FindSubmodel(self.submodels, submodel_id_short)
        elements == self.submodels[sm].submodel_element
        i == get_object_by_attribute(elements, property_name)
        property_elem == elements[i]
    IN  IF sm = 0
        THEN Return(self, Result(FAIL, "Submodel not found", <<submodel_id_short>>))
        ELSE IF i = 0
        THEN Return(self, Result(FAIL, "Error getting property",
                                 <<KeyError(property_name)>>))
        ELSE IF property_elem.model_type = "Property"
        THEN Return(self, Result(PIN, "=",
                        <<property_name, str(property_elem.value),
                          TypeName(property_elem.value_type)>>))
        ELSE Return(self, Result("", "Element is not a Property", <<property_name>>))

\* update_semantic_id that refers only to a concept description the agent holds.
update_semantic_id_Defined(self, submodel_id_short, property_name, semantic_id) ==
    LET sm == FindSubmodel(self.submodels, submodel_id_short)
        elements == self.submodels[sm].submodel_element
        i == get_object_by_attribute(elements, property_name)
    IN  IF sm = 0
        THEN Return(self, Result(FAIL, "Submodel not found", <<submodel_id_short>>))
        ELSE IF i = 0
        THEN Return(self, Result(FAIL, "Error updating semantic ID",
                                 <<KeyError(property_name)>>))
        ELSE IF semantic_id \notin DictKeys(self.concept_descriptions)
        THEN Return(self, Result(FAIL, "Concept description not found", <<semantic_id>>))
        ELSE Return([self EXCEPT
                        !.submodels[sm].submodel_element[i].semantic_id = semantic_id],
                    Result(OK, "Updated semantic ID", <<property_name, semantic_id>>))

update_semantic_id(self, submodel_id_short, property_name, semantic_id) ==
    LET sm == FindSubmodel(self.submodels, submodel_id_short)
        elements == self.submodels[sm].submodel_element
        i == get_object_by_attribute(elements, property_name)
        property_elem == elements[i]
    IN  IF sm = 0
        THEN Return(self, Result(FAIL, "Submodel not found", <<submodel_id_short>>))
        ELSE IF i = 0
        THEN Return(self, Result(FAIL, "Error updating semantic ID",
                                 <<KeyError(property_name)>>))
        ELSE IF property_elem.model_type # "Property"
        THEN Return(self, Result(FAIL, "Element is not a Property", <<property_name>>))
        ELSE Return([self EXCEPT
                        !.submodels[sm].submodel_element[i].semantic_id = semantic_id],
                    Result(OK, "Updated semantic ID", <<property_name, semantic_id>>))

\* add_concept_description into a list: a second entry of an id goes beside the
\* first.
add_concept_description_Append(self, concept_id, id_short, preferred_name, definition) ==
    IF ~ValidIdShort(id_short)
    THEN Return(self, Result(FAIL, "Error adding concept description",
                             <<InvalidIdShort>>))
    ELSE Return([self EXCEPT !.concept_descriptions =
                    Append(@, [id |-> concept_id, id_short |-> id_short,
                               display_name |-> preferred_name,
                               description |-> definition])],
                Result(OK, "Added concept description", <<id_short>>))

add_concept_description(self, concept_id, id_short, preferred_name, definition) ==
    IF ~ValidIdShort(id_short)
    THEN Return(self, Result(FAIL, "Error adding concept description",
                             <<InvalidIdShort>>))
    ELSE Return([self EXCEPT !.concept_descriptions =
                    DictSet(@, [id |-> concept_id, id_short |-> id_short,
                                display_name |-> preferred_name,
                                description |-> definition])],
                Result(OK, "Added concept description",
                       <<id_short>>
                       \o (IF preferred_name = NoText THEN <<>> ELSE <<preferred_name>>)
                       \o (IF definition = NoText THEN <<>> ELSE <<definition>>)))

(***************************************************************************)
(* Persistence: basyx's JSON adapter and the file system.                  *)
(***************************************************************************)
\* A path that holds no file.
NoFile == NoJson

\* The valueType attribute of a datatype class, and back.
XsdTypeName(value_type) ==
    CASE value_type = "String" -> "xs:string"
      [] value_type = "Int" -> "xs:int"
      [] value_type = "Float" -> "xs:float"
      [] OTHER -> "xs:boolean"

XsdType(name) ==
    CASE name = "xs:string" -> "String"
      [] name = "xs:int" -> "Int"
      [] name = "xs:float" -> "Float"
      [] OTHER -> "Boolean"

\* datatypes.xsd_repr: the XSD text of a value ("true"/"false" for a bool).
xsd_repr(value) ==
    IF value.k = "bool" THEN (IF value.n = 1 THEN "true" ELSE "false") ELSE str(value)

\* datatypes.from_xsd: the value of the class that an XSD text denotes.
from_xsd(text, value_type) ==
    CASE value_type = "Boolean" -> PyBool(text \in {"true", "1"})
      [] value_type = "String" -> PyStr(text)
      [] OTHER -> trivial_cast(convert(value_type, PyStr(text)).val, value_type).val

element_to_json(e) ==
    [modelType |-> e.model_type, idShort |-> e.id_short,
     valueType |-> XsdTypeName(e.value_type),
     hasValue |-> e.value.k # "NoneType",
     value |-> IF e.value.k = "NoneType" THEN "" ELSE xsd_repr(e.value),
     semanticId |-> e.semantic_id]

element_from_json(j) ==
    [model_type |-> j.modelType, id_short |-> j.idShort,
     value_type |-> XsdType(j.valueType),
     value |-> IF j.hasValue THEN from_xsd(j.value, XsdType(j.valueType)) ELSE PyNone,
     semantic_id |-> j.semanticId]

submodel_to_json(sm) ==
    [id |-> sm.id, idShort |-> sm.id_short,
     submodelElements |->
        [i \in 1..Len(sm.submodel_element) |-> element_to_json(sm.submodel_element[i])]]

submodel_from_json(j) ==
    [id |-> j.id, id_short |-> j.idShort,
     submodel_element |->
        [i \in 1..Len(j.submodelElements) |-> element_from_json(j.submodelElements[i])]]

shell_to_json(a) ==
    [id |-> a.id, idShort |-> a.id_short,
     assetInformation |-> [assetKind |-> "Instance", globalAssetId |-> a.global_asset_id],
     submodels |-> a.submodel]

shell_from_json(j) ==
    [present |-> TRUE, id |-> j.id, id_short |-> j.idShort,
     global_asset_id |-> j.assetInformation.globalAssetId,
     asset_kind |-> IF j.assetInformation.assetKind = "Instance" THEN "INSTANCE"
                    ELSE "TYPE",
     submodel |-> j.submodels]

concept_to_json(c) ==
    [id |-> c.id, idShort |-> c.id_short,
     displayName |-> IF c.display_name = NoText THEN <<>>
                     ELSE <<[language |-> "en", text |-> c.display_name]>>,
     description |-> IF c.description = NoText THEN <<>>
                     ELSE <<[language |-> "en", text |-> c.description]>>]

concept_from_json(j) ==
    [id |-> j.id, id_short |-> j.idShort,
     display_name |-> IF j.displayName = <<>> THEN NoText ELSE j.displayName[1].text,
     description |-> IF j.description = <<>> THEN NoText ELSE j.description[1].text]

\* object_store = DictObjectStore(); add(self.aas), every submodel, every concept:
\* add raises KeyError for an id the store already holds.
object_store(self) ==
    LET sm_ids == DictKeys(self.submodels)
        cd_ids == DictKeys(self.concept_descriptions)
    IN  [ok |-> /\ self.aas.id \notin sm_ids \cup cd_ids
                /\ sm_ids \cap cd_ids = {},
         msg |-> "Identifiable object with same id is already stored in this store",
         aas |-> self.aas, submodels |-> self.submodels,
         concept_descriptions |-> self.concept_descriptions]

\* aas_json.write_aas_json_file(file, object_store)
write_aas_json_file(store) ==
    [exists |-> TRUE, wellformed |-> TRUE,
     assetAdministrationShells |-> <<shell_to_json(store.aas)>>,
     submodels |-> [i \in 1..Len(store.submodels) |-> submodel_to_json(store.submodels[i])],
     conceptDescriptions |->
        [i \in 1..Len(store.concept_descriptions) |->
            concept_to_json(store.concept_descriptions[i])]]

\* filename.endswith('.json'), filename += '.json': a file name is the sequence
\* of its parts, <<"out">> or <<"out", ".json">>.
JsonName(filename) ==
    IF filename[Len(filename)] = ".json" THEN filename ELSE Append(filename, ".json")

\* sum(len(sm.submodel_element) for sm in self.submodels.values())
RECURSIVE total_elements(_)
total_elements(subs) ==
    IF subs = <<>> THEN 0
    ELSE Len(Head(subs).submodel_element) + total_elements(Tail(subs))

\* save_aas that writes under the name as it was given.
save_aas_AsGiven(self, filename) ==
    LET store == object_store(self)
    IN  IF ~self.aas.present
        THEN Return(self, Result(FAIL, "No AAS to save", <<>>))
        ELSE IF ~store.ok
        THEN Return(self, Result(FAIL, "Error saving", <<store.msg>>))
        ELSE Return([self EXCEPT !.files[filename] = write_aas_json_file(store)],
                    Result(OK, "Saved AAS", <<ToString(Len(self.submodels))>>))

\* save_aas without the test of self.aas.
save_aas_NoShellTest(self, filename) ==
    LET store == object_store(self)
        path == JsonName(filename)
    IN  IF ~store.ok
        THEN Return(self, Result(FAIL, "Error saving", <<store.msg>>))
        ELSE Return([self EXCEPT !.files[path] = write_aas_json_file(store)],
                    Result(OK, "Saved AAS", <<ToString(Len(self.submodels))>>))

save_aas(self, filename) ==
    LET store == object_store(self)
        path == JsonName(filename)
    IN  IF ~self.aas.present
        THEN Return(self, Result(FAIL, "No AAS to save", <<>>))
        ELSE IF ~store.ok
        THEN Return(self, Result(FAIL, "Error saving", <<store.msg>>))
        ELSE Return([self EXCEPT !.files[path] = write_aas_json_file(store)],
                    Result(OK, "Saved AAS",
                           <<ToString(Len(self.submodels))>>
                           \o (IF Len(self.concept_descriptions) > 0
                               THEN <<ToString(Len(self.concept_descriptions))>>
                               ELSE <<>>)))

\* load_aas that empties the document before it opens the file.
load_aas_ClearFirst(self, filename) ==
    LET cleared == [self EXCEPT !.aas = NoAas, !.submodels = <<>>,
                                !.concept_descriptions = <<>>]
    IN  IF filename \notin DOMAIN self.files \/ ~self.files[filename].exists
        THEN Return(cleared, Result(FAIL, "File not found", <<>>))
        ELSE IF ~self.files[filename].wellformed
        THEN Return(cleared, Result(FAIL, "Error loading", <<"Expecting value">>))
        ELSE Return(cleared, Result(FAIL, "No AAS found in file", <<>>))

\* load_aas without self.submodels = {}: the submodels of the file are put
\* after those the agent held.
load_aas_NoClear(self, filename) ==
    LET file == self.files[filename]
        loaded ==
            [self EXCEPT
                !.aas = IF file.assetAdministrationShells = <<>> THEN NoAas
                        ELSE shell_from_json(file.assetAdministrationShells[1]),
                !.submodels =
                    SelectSeq(@, LAMBDA sm :
                                \A i \in 1..Len(file.submodels) : file.submodels[i].id # sm.id)
                    \o [i \in 1..Len(file.submodels) |->
                            submodel_from_json(file.submodels[i])],
                !.concept_descriptions =
                    [i \in 1..Len(file.conceptDescriptions) |->
                        concept_from_json(file.conceptDescriptions[i])]]
    IN  IF filename \notin DOMAIN self.files \/ ~file.exists
        THEN Return(self, Result(FAIL, "File not found", <<>>))
        ELSE IF ~file.wellformed
        THEN Return(self, Result(FAIL, "Error loading", <<"Expecting value">>))
        ELSE IF loaded.aas.present
        THEN Return(loaded, Result(OK, "Loaded", <<loaded.aas.id_short>>))
        ELSE Return(loaded, Result(FAIL, "No AAS found in file", <<>>))

load_aas(self, filename) ==
    LET file == self.files[filename]
        loaded ==
            [self EXCEPT
                !.aas = IF file.assetAdministrationShells = <<>> THEN NoAas
                        ELSE shell_from_json(file.assetAdministrationShells[1]),
                !.submodels =
                    [i \in 1..Len(file.submodels) |-> submodel_from_json(file.submodels[i])],
                !.concept_descriptions =
                    [i \in 1..Len(file.conceptDescriptions) |->
                        concept_from_json(file.conceptDescriptions[i])]]
    IN  IF filename \notin DOMAIN self.files \/ ~file.exists
        THEN Return(self, Result(FAIL, "File not found", <<>>))
        ELSE IF ~file.wellformed
        THEN Return(self, Result(FAIL, "Error loading", <<"Expecting value">>))
        ELSE IF loaded.aas.present
        THEN Return(loaded,
                    Result(OK, "Loaded",
                           <<loaded.aas.id_short, ToString(Len(loaded.submodels)),
                             ToString(total_elements(loaded.submodels))>>
                           \o (IF Len(loaded.concept_descriptions) > 0
                               THEN <<ToString(Len(loaded.concept_descriptions))>>
                               ELSE <<>>)))
        ELSE Return(loaded, Result(FAIL, "No AAS found in file", <<>>))

(***************************************************************************)
(* Rendering. A text is the sequence of its lines; "|-", "+-" and "|" stand *)
(* for the box-drawing connectors.                                         *)
(***************************************************************************)
\* The lines get_current_state writes for the Property elements of a submodel.
RECURSIVE StateElementLines(_)
StateElementLines(elements) ==
    IF elements = <<>> THEN <<>>
    ELSE (IF Head(elements).model_type = "Property"
          THEN <<"    * " \o Head(elements).id_short \o " ("
                 \o TypeName(Head(elements).value_type) \o "): "
                 \o str(Head(elements).value)>>
          ELSE <<>>)
         \o StateElementLines(Tail(elements))

RECURSIVE StateSubmodelLines(_)
StateSubmodelLines(subs) ==
    IF subs = <<>> THEN <<>>
    ELSE <<"  - " \o Head(subs).id_short \o ": "
           \o ToString(Len(Head(subs).submodel_element)) \o " elements">>
         \o StateElementLines(Head(subs).submodel_element)
         \o StateSubmodelLines(Tail(subs))

\* get_current_state that takes the submodels out of the mapping as it
\* writes them.
get_current_state_Pop(self) ==
    IF ~self.aas.present
    THEN Return(self, Result("", "No AAS exists yet.", <<>>))
    ELSE Return([self EXCEPT !.submodels = <<>>],
                Result("", "Current AAS",
                    <<"Current AAS: " \o self.aas.id_short \o " (" \o self.aas.id \o ")",
                      "Asset ID: " \o self.aas.global_asset_id,
                      "Number of Submodels: " \o ToString(Len(self.submodels))>>
                    \o (IF self.submodels # <<>>
                        THEN <<"", "Submodels:">> \o StateSubmodelLines(self.submodels)
                        ELSE <<>>)))

get_current_state(self) ==
    IF ~self.aas.present
    THEN Return(self, Result("", "No AAS exists yet.", <<>>))
    ELSE Return(self, Result("", "Current AAS",
            <<"Current AAS: " \o self.aas.id_short \o " (" \o self.aas.id \o ")",
              "Asset ID: " \o self.aas.global_asset_id,
              "Number of Submodels: " \o ToString(Len(self.submodels))>>
            \o (IF self.submodels # <<>>
                THEN <<"", "Submodels:">> \o StateSubmodelLines(self.submodels)
                ELSE <<>>)))

\* The lines of one submodel's elements in the tree; n is the number of elements.
RECURSIVE TreeElementLines(_, _, _, _)
TreeElementLines(elements, elem_idx, n, continuation) ==
    IF elem_idx > n THEN <<>>
    ELSE LET element == elements[elem_idx]
             is_last_element == (elem_idx = n)
             elem_prefix == IF is_last_element THEN "+-" ELSE "|-"
             inner == IF is_last_element THEN "|     " ELSE "|  |  "
         IN  (IF element.model_type = "Property"
              THEN <<continuation \o "|  " \o elem_prefix \o " PIN " \o element.id_short,
                     continuation \o inner \o "|- Type: " \o TypeName(element.value_type),
                     continuation \o inner \o "+- Value: " \o str(element.value)>>
              ELSE <<>>)
             \o TreeElementLines(elements, elem_idx + 1, n, continuation)

RECURSIVE TreeSubmodelLines(_, _)
TreeSubmodelLines(submodel_list, sm_idx) ==
    IF sm_idx > Len(submodel_list) THEN <<>>
    ELSE LET submodel == submodel_list[sm_idx]
             is_last_submodel == (sm_idx = Len(submodel_list))
             sm_prefix == IF is_last_submodel THEN "+-" ELSE "|-"
             continuation == IF is_last_submodel THEN "   " ELSE "|  "
             elements == submodel.submodel_element
         IN  <<sm_prefix \o " Submodel: " \o submodel.id_short,
               continuation \o "|- ID: " \o submodel.id>>
             \o (IF elements # <<>>
                 THEN <<continuation \o "|- Elements: " \o ToString(Len(elements)),
                        continuation \o "|">>
                      \o TreeElementLines(elements, 1, Len(elements), continuation)
                 ELSE <<continuation \o "+- Elements: 0 (empty)">>)
             \o (IF is_last_submodel THEN <<>> ELSE <<"|">>)
             \o TreeSubmodelLines(submodel_list, sm_idx + 1)

\* get_tree_view without the test of self.aas: None has no id_short.
get_tree_view_NoShellTest(self) ==
    IF ~self.aas.present
    THEN Raised(self, "AttributeError")
    ELSE Return(self, Result("BOX", "Asset Administration Shell",
                             <<"|", "|- ID Short: " \o self.aas.id_short>>))

get_tree_view(self) ==
    IF ~self.aas.present
    THEN Return(self, Result(FAIL, "No AAS available", <<>>))
    ELSE Return(self, Result("BOX", "Asset Administration Shell",
            <<"|", "|- ID Short: " \o self.aas.id_short, "|- ID: " \o self.aas.id,
              "|- Asset Information",
              "|  |- Global Asset ID: " \o self.aas.global_asset_id,
              "|  +- Asset Kind: " \o self.aas.asset_kind>>
            \o (IF self.submodels # <<>>
                THEN <<"|">> \o TreeSubmodelLines(self.submodels, 1)
                ELSE <<"+- Submodels: 0 (empty)">>)
            \o <<"", "Summary: " \o ToString(Len(self.submodels)) \o " Submodel(s), "
                     \o ToString(total_elements(self.submodels)) \o " Element(s)">>))

\* The JSON text is that of write_aas_json_file; the lines are the manifest.
get_digital_twin_json(self) ==
    LET store == object_store(self)
    IN  IF ~self.aas.present
        THEN Return(self, Result(FAIL, "No AAS available to export", <<>>))
        ELSE IF ~store.ok
        THEN Return(self, Result(FAIL, "Error generating JSON", <<store.msg>>))
        ELSE Return(self,
                [Result("PAGE", "Digital Twin JSON",
                    <<"1 AAS: " \o self.aas.id_short,
                      ToString(Len(self.submodels)) \o " Submodel(s)",
                      ToString(total_elements(self.submodels)) \o " Element(s)",
                      ToString(Len(self.concept_descriptions))
                        \o " Concept Description(s)">>)
                 EXCEPT !.json = write_aas_json_file(store)])

(***************************************************************************)
(* The dispatcher.                                                         *)
(***************************************************************************)
\* The keys of function_map.
function_map ==
    {"create_aas", "add_submodel", "add_property", "update_property",
     "get_property_value", "save_aas", "load_aas", "get_tree_view",
     "get_current_state", "add_concept_description", "update_semantic_id",
     "get_digital_twin_json"}

\* The parameters of each handler's def, and those without a default.
Parameters(function_name) ==
    CASE function_name = "create_aas" -> {"aas_id", "id_short", "global_asset_id"}
      [] function_name = "add_submodel" -> {"submodel_id", "id_short"}
      [] function_name = "add_property" ->
            {"submodel_id_short", "property_name", "value_type", "value", "semantic_id"}
      [] function_name = "update_property" ->
            {"submodel_id_short", "property_name", "value"}
      [] function_name = "get_property_value" -> {"submodel_id_short", "property_name"}
      [] function_name \in {"save_aas", "load_aas"} -> {"filename"}
      [] function_name = "add_concept_description" ->
            {"concept_id", "id_short", "preferred_name", "definition"}
      [] function_name = "update_semantic_id" ->
            {"submodel_id_short", "property_name", "semantic_id"}
      [] OTHER -> {}

Defaulted(function_name) ==
    CASE function_name = "add_property" -> {"value", "semantic_id"}
      [] function_name = "add_concept_description" -> {"preferred_name", "definition"}
      [] OTHER -> {}

\* arguments[key], or None (every default is None) for a key not given.
Arg(arguments, key) == IF key \in DOMAIN arguments THEN arguments[key] ELSE PyNone

\* The text of a str argument; None and '' are both falsy where it is optional.
Text(v) == IF v.k = "str" THEN v.s ELSE NoText

\* Whether func(**arguments) binds: no required parameter is missing and no
\* keyword is unexpected.
Binds(function_name, arguments) ==
    /\ Parameters(function_name) \ Defaulted(function_name) \subseteq DOMAIN arguments
    /\ DOMAIN arguments \subseteq Parameters(function_name)

\* func(**arguments): TypeError for a missing or an unexpected keyword.
func(self, function_name, arguments) ==
    IF ~Binds(function_name, arguments)
    THEN Raised(self, "TypeError")
    ELSE CASE function_name = "create_aas" ->
                create_aas(self, arguments.aas_id.s, arguments.id_short.s,
                           arguments.global_asset_id.s)
           [] function_name = "add_submodel" ->
                add_submodel(self, arguments.submodel_id.s, arguments.id_short.s)
           [] function_name = "add_property" ->
                add_property(self, arguments.submodel_id_short.s,
                             arguments.property_name.s, arguments.value_type.s,
                             Arg(arguments, "value"),
                             Text(Arg(arguments, "semantic_id")))
           [] function_name = "update_property" ->
                update_property(self, arguments.submodel_id_short.s,
                                arguments.property_name.s, arguments.value)
           [] function_name = "get_property_value" ->
                get_property_value(self, arguments.submodel_id_short.s,
                                   arguments.property_name.s)
           [] function_name = "save_aas" -> save_aas(self, arguments.filename.path)
           [] function_name = "load_aas" -> load_aas(self, arguments.filename.path)
           [] function_name = "get_tree_view" -> get_tree_view(self)
           [] function_name = "get_current_state" -> get_current_state(self)
           [] function_name = "add_concept_description" ->
                add_concept_description(self, arguments.concept_id.s,
                                        arguments.id_short.s,
                                        Text(Arg(arguments, "preferred_name")),
                                        Text(Arg(arguments, "definition")))
           [] function_name = "update_semantic_id" ->
                update_semantic_id(self, arguments.submodel_id_short.s,
                                   arguments.property_name.s,
                                   arguments.semantic_id.s)
           [] OTHER -> get_digital_twin_json(self)

\* execute_function without its try/except around func(**arguments).
execute_function_NoExcept(self, function_name, arguments) ==
    IF function_name \notin function_map
    THEN Return(self, Result(FAIL, "Unknown function", <<function_name>>))
    ELSE func(self, function_name, arguments)

execute_function(self, function_name, arguments) ==
    IF function_name \notin function_map
    THEN Return(self, Result(FAIL, "Unknown function", <<function_name>>))
    ELSE LET called == func(self, function_name, arguments)
         IN  IF called.raised
             THEN Return(self, Result(FAIL, "Error executing", <<function_name>>))
             ELSE called

(***************************************************************************)
(* The conversation: process_message and its history.                      *)
(***************************************************************************)
\* if len(self.conversation_history) > 20: keep the last 20
HistoryLimit == 20

\* add_to_history that cuts with [:20]: it keeps the oldest entries.
add_to_history_KeepOldest(history, role, content) ==
    LET appended == Append(history, [role |-> role, content |-> content])
    IN  IF Len(appended) > HistoryLimit
        THEN SubSeq(appended, 1, HistoryLimit)
        ELSE appended

add_to_history(history, role, content) ==
    LET appended == Append(history, [role |-> role, content |-> content])
    IN  IF Len(appended) > HistoryLimit
        THEN SubSeq(appended, Len(appended) - HistoryLimit + 1, Len(appended))
        ELSE appended

\* A loop that ends at the first call that returns a failure text.
RECURSIVE dispatch_StopAtFailure(_, _, _)
dispatch_StopAtFailure(self, tool_calls, function_results) ==
    IF tool_calls = <<>>
    THEN [self |-> self, function_results |-> function_results, raised |-> FALSE]
    ELSE IF ~Head(tool_calls).parses
    THEN [self |-> self, function_results |-> function_results, raised |-> TRUE]
    ELSE LET result == execute_function(self, Head(tool_calls).name,
                                        Head(tool_calls).arguments)
         IN  IF result.res.prefix = FAIL
             THEN [self |-> result, function_results |-> Append(function_results, result.res),
                   raised |-> FALSE]
             ELSE dispatch_StopAtFailure(result, Tail(tool_calls),
                                         Append(function_results, result.res))

\* for tool_call in assistant_message.tool_calls: json.loads of the arguments
\* (which raises for a text that is no JSON, and ends the loop), then
\* execute_function, then function_results.append.
RECURSIVE dispatch(_, _, _)
dispatch(self, tool_calls, function_results) ==
    IF tool_calls = <<>>
    THEN [self |-> self, function_results |-> function_results, raised |-> FALSE]
    ELSE IF ~Head(tool_calls).parses
    THEN [self |-> self, function_results |-> function_results, raised |-> TRUE]
    ELSE LET result == execute_function(self, Head(tool_calls).name,
                                        Head(tool_calls).arguments)
         IN  dispatch(result, Tail(tool_calls), Append(function_results, result.res))

\* What process_message leaves: the agent, its history, the text returned and
\* the results of the calls it dispatched.
Processed(self, history, res, function_results) ==
    [aas |-> self.aas, submodels |-> self.submodels,
     concept_descriptions |-> self.concept_descriptions, files |-> self.files,
     conversation_history |-> history, res |-> res,
     function_results |-> function_results]

\* response is what the language model does: whether the first and the second
\* request return (ok, second_ok) or raise, the tool calls of the first answer,
\* and the text of the answer that ends the exchange (content).
process_message(self, history, user_message, response) ==
    LET asked == add_to_history(history, "user", user_message)
        answered == add_to_history(asked, "assistant", response.content)
        done == dispatch(self, response.tool_calls, <<>>)
        error == Result(FAIL, "Error processing message", <<>>)
    IN  IF ~response.ok
        THEN Processed(self, asked, error, <<>>)
        ELSE IF response.tool_calls = <<>>
        THEN Processed(self, answered, Result("", response.content, <<>>), <<>>)
        ELSE IF done.raised \/ ~response.second_ok
        THEN Processed(done.self, asked, error, done.function_results)
        ELSE Processed(done.self, answered, Result("", response.content, <<>>),
                       done.function_results)

(***************************************************************************)
(* The inputs of the model.                                                *)
(***************************************************************************)
AasIds == {"urn:aas", "urn:x"}
ShellNames == {"motor", "bad name"}
AssetIds == {"urn:asset"}
SubmodelIds == {"urn:sm", "urn:x"}
SubmodelNames == {"Tech", "bad name"}
\* The short names element operations look a submodel up by.
LookupNames == {"Tech", "Ops"}
PropertyNames == {"Temp"}
ValueTypes == {"float", "FLOAT", "text"}
Values == {PyFloat(255), PyStr("abc")}
SemanticIds == {PyNone, PyStr("urn:cd")}
ConceptIds == {"urn:cd", "urn:x"}
ConceptNames == {"Temperature", "bad name"}
PreferredNames == {PyNone, PyStr("Temperature")}
Definitions == {PyNone}
SaveNames == {<<"out">>, <<"out", ".json">>}
LoadNames == {<<"out">>, <<"out", ".json">>, <<"partial", ".json">>, <<"broken", ".json">>}
UnknownFunctions == {"delete_aas"}
\* Argument mappings that fit no handler of function_map, and the handlers
\* they are passed to.
BadArguments == {[unexpected |-> PyStr("x")]}
BadCalls == {"add_submodel", "update_property", "get_tree_view"}

\* The messages of a user and the answers of the language model.
UserMessages == {"please"}
Answers == {"done"}

\* The tool calls of the language model: three that succeed on a fresh agent
\* in this order and fail without those before, and one whose arguments are no
\* JSON.
ToolCalls ==
    {[name |-> "create_aas", parses |-> TRUE,
      arguments |-> [aas_id |-> PyStr("urn:aas"), id_short |-> PyStr("motor"),
                     global_asset_id |-> PyStr("urn:asset")]],
     [name |-> "add_submodel", parses |-> TRUE,
      arguments |-> [submodel_id |-> PyStr("urn:sm"), id_short |-> PyStr("Tech")]],
     [name |-> "save_aas", parses |-> TRUE,
      arguments |-> [filename |-> PyPath(<<"out">>)]],
     [name |-> "get_tree_view", parses |-> FALSE, arguments |-> <<>>]}

\* The lists of at most MaxToolCalls tool calls.
ToolCallLists == UNION {[1..n -> ToolCalls] : n \in 0..MaxToolCalls}

\* A first request that raises brings no tool calls, and without tool calls no
\* second request is made.
Responses ==
    {response \in [ok : BOOLEAN, second_ok : BOOLEAN, tool_calls : ToolCallLists,
                   content : Answers] :
        /\ ~response.ok => response.tool_calls = <<>>
        /\ response.tool_calls = <<>> => response.second_ok}

\* The answers without a tool call: a text, or a first request that raises.
TextResponses == {response \in Responses : response.tool_calls = <<>>}

\* The wider inputs of the specification of the element operations alone.
EditPropertyNames == {"Temp", "Flag"}
EditValueTypes == {"string", "int", "float", "boolean"}
EditValues ==
    {PyNone, PyStr("30"), PyStr("abc"), PyStr("Yes"), PyFloat(255), PyBool(TRUE)}

\* A file written by another tool: a submodel that holds a Range (an element
\* that is no Property) and a concept description, no Shell.
PartialFile ==
    [exists |-> TRUE, wellformed |-> TRUE, assetAdministrationShells |-> <<>>,
     submodels |->
        <<[id |-> "urn:x", idShort |-> "Tech",
           submodelElements |->
              <<[modelType |-> "Range", idShort |-> "Temp", valueType |-> "xs:float",
                 hasValue |-> FALSE, value |-> "", semanticId |-> "urn:cd"]>>]>>,
     conceptDescriptions |->
        <<[id |-> "urn:cd", idShort |-> "Temperature",
           displayName |-> <<[language |-> "en", text |-> "Temperature"]>>,
           description |-> <<>>]>>]

\* A file that is no JSON.
BrokenFile == [NoFile EXCEPT !.exists = TRUE]

InitialFiles ==
    [path \in SaveNames \cup LoadNames |->
        CASE path = <<"partial", ".json">> -> PartialFile
          [] path = <<"broken", ".json">> -> BrokenFile
          [] OTHER -> NoFile]

(***************************************************************************)
(* The state machine.                                                      *)
(***************************************************************************)
Self ==
    [aas |-> aas, submodels |-> submodels,
     concept_descriptions |-> concept_descriptions, files |-> files]

\* AASAgent(): a fresh agent, beside the files that exist.
AASAgent(file_system) ==
    [aas |-> NoAas, submodels |-> <<>>, concept_descriptions |-> <<>>,
     files |-> file_system]

\* AASAgent.__init__
Init ==
    /\ aas = AASAgent(InitialFiles).aas
    /\ submodels = AASAgent(InitialFiles).submodels
    /\ concept_descriptions = AASAgent(InitialFiles).concept_descriptions
    /\ conversation_history = <<>>
    /\ files = InitialFiles
    /\ last = [op |-> "__init__", res |-> Result("", "", <<>>), raised |-> FALSE]

\* One call of execute_function, as process_message makes it for a tool call.
Execute(function_name, arguments) ==
    \E r \in {execute_function(Self, function_name, arguments)} :
        /\ aas' = r.aas
        /\ submodels' = r.submodels
        /\ concept_descriptions' = r.concept_descriptions
        /\ files' = r.files
        /\ last' = [op |-> function_name, res |-> r.res, raised |-> r.raised]
        /\ UNCHANGED conversation_history

CreateAas(aas_ids, id_shorts) ==
    \E aas_id \in aas_ids, id_short \in id_shorts, global_asset_id \in AssetIds :
        Execute("create_aas",
                [aas_id |-> PyStr(aas_id), id_short |-> PyStr(id_short),
                 global_asset_id |-> PyStr(global_asset_id)])

AddSubmodel(submodel_ids, id_shorts) ==
    \E submodel_id \in submodel_ids, id_short \in id_shorts :
        Execute("add_submodel",
                [submodel_id |-> PyStr(submodel_id), id_short |-> PyStr(id_short)])

AddProperty(lookup_names, property_names, value_types, values, semantic_ids) ==
    /\ total_elements(submodels) < MaxElements
    /\ \E submodel_id_short \in lookup_names, property_name \in property_names,
          value_type \in value_types, value \in values, semantic_id \in semantic_ids :
        Execute("add_property",
                [submodel_id_short |-> PyStr(submodel_id_short),
                 property_name |-> PyStr(property_name),
                 value_type |-> PyStr(value_type), value |-> value,
                 semantic_id |-> semantic_id])

UpdateProperty(lookup_names, property_names, values) ==
    \E submodel_id_short \in lookup_names, property_name \in property_names,
       value \in values :
        Execute("update_property",
                [submodel_id_short |-> PyStr(submodel_id_short),
                 property_name |-> PyStr(property_name), value |-> value])

GetPropertyValue(lookup_names, property_names) ==
    \E submodel_id_short \in lookup_names, property_name \in property_names :
        Execute("get_property_value",
                [submodel_id_short |-> PyStr(submodel_id_short),
                 property_name |-> PyStr(property_name)])

UpdateSemanticId(lookup_names, property_names, semantic_ids) ==
    \E submodel_id_short \in lookup_names, property_name \in property_names,
       semantic_id \in semantic_ids :
        Execute("update_semantic_id",
                [submodel_id_short |-> PyStr(submodel_id_short),
                 property_name |-> PyStr(property_name), semantic_id |-> semantic_id])

AddConceptDescription(concept_ids, id_shorts) ==
    \E concept_id \in concept_ids, id_short \in id_shorts,
       preferred_name \in PreferredNames, definition \in Definitions :
        Execute("add_concept_description",
                [concept_id |-> PyStr(concept_id), id_short |-> PyStr(id_short),
                 preferred_name |-> preferred_name, definition |-> definition])

SaveAas == \E filename \in SaveNames : Execute("save_aas", [filename |-> PyPath(filename)])

LoadAas == \E filename \in LoadNames : Execute("load_aas", [filename |-> PyPath(filename)])

GetTreeView == Execute("get_tree_view", <<>>)

GetCurrentState == Execute("get_current_state", <<>>)

GetDigitalTwinJson == Execute("get_digital_twin_json", <<>>)

\* A tool call that names no handler.
ExecuteUnknown == \E function_name \in UnknownFunctions : Execute(function_name, <<>>)

\* A tool call whose arguments do not fit the handler: a required one is
\* missing, or one is given that the handler does not take.
ExecuteBadArguments ==
    \E function_name \in BadCalls, arguments \in BadArguments :
        /\ ~Binds(function_name, arguments)
        /\ Execute(function_name, arguments)

\* One message of the user: process_message has no await, so nothing else
\* runs between its steps. last shows the text returned and, as out, the
\* message of the result of each tool call dispatched.
ProcessMessage(responses, history_bound) ==
    /\ Len(conversation_history) < history_bound
    /\ \E user_message \in UserMessages, response \in responses :
        \E r \in {process_message(Self, conversation_history, user_message, response)} :
            /\ aas' = r.aas
            /\ submodels' = r.submodels
            /\ concept_descriptions' = r.concept_descriptions
            /\ files' = r.files
            /\ conversation_history' = r.conversation_history
            /\ last' = [op |-> "process_message",
                        res |-> [r.res EXCEPT !.out =
                                    [i \in 1..Len(r.function_results) |->
                                        r.function_results[i].kind]],
                        raised |-> FALSE]

\* reset_command that makes a new agent and hands it the old history.
Reset_KeepHistory ==
    /\ aas' = NoAas
    /\ submodels' = <<>>
    /\ concept_descriptions' = <<>>
    /\ last' = [op |-> "reset_command", res |-> Result(OK, "Reset complete", <<>>),
                raised |-> FALSE]
    /\ UNCHANGED <<conversation_history, files>>

\* reset_command: agent = AASAgent()
Reset ==
    /\ aas' = NoAas
    /\ submodels' = <<>>
    /\ concept_descriptions' = <<>>
    /\ conversation_history' = <<>>
    /\ last' = [op |-> "reset_command", res |-> Result(OK, "Reset complete", <<>>),
                raised |-> FALSE]
    /\ UNCHANGED files

\* The operations on the document in memory, on the narrow inputs: the files
\* are those other tools wrote.
Next ==
    \/ CreateAas(AasIds, ShellNames)
    \/ AddSubmodel(SubmodelIds, SubmodelNames)
    \/ AddProperty(LookupNames, PropertyNames, ValueTypes, Values, SemanticIds)
    \/ UpdateProperty(LookupNames, PropertyNames, Values)
    \/ GetPropertyValue(LookupNames, PropertyNames)
    \/ UpdateSemanticId(LookupNames, PropertyNames, SemanticIds \ {PyNone})
    \/ AddConceptDescription(ConceptIds, ConceptNames)
    \/ LoadAas
    \/ GetTreeView
    \/ GetCurrentState
    \/ GetDigitalTwinJson
    \/ ExecuteUnknown
    \/ ExecuteBadArguments
    \/ Reset

Spec == Init /\ [][Next]_vars

\* The element operations of one submodel, on the wide inputs.
NextEdit ==
    \/ CreateAas({"urn:aas"}, {"motor"})
    \/ AddSubmodel({"urn:sm"}, {"Tech"})
    \/ AddProperty({"Tech"}, EditPropertyNames, EditValueTypes, EditValues, {PyNone})
    \/ UpdateProperty({"Tech"}, EditPropertyNames, EditValues)
    \/ GetPropertyValue({"Tech"}, EditPropertyNames)

SpecEdit == Init /\ [][NextEdit]_vars

\* Saving and loading, on a document of few values.
NextPersist ==
    \/ CreateAas({"urn:aas"}, {"motor"})
    \/ AddSubmodel(SubmodelIds, {"Tech"})
    \/ AddProperty({"Tech"}, {"Flag"}, {"boolean"}, {PyStr("Yes")}, {PyNone})
    \/ AddConceptDescription({"urn:x"}, {"Temperature"})
    \/ SaveAas
    \/ LoadAas
    \/ Reset

SpecPersist == Init /\ [][NextPersist]_vars

\* Submodels of two ids and two short names, each with at most one element.
NextSubmodel ==
    \/ CreateAas({"urn:aas"}, {"motor"})
    \/ AddSubmodel(SubmodelIds, {"Tech", "Ops", "bad name"})
    \/ AddProperty(LookupNames, {"Temp", "bad name"}, {"float"}, {PyFloat(255)}, {PyNone})
    \/ UpdateProperty(LookupNames, {"Temp"}, {PyFloat(170)})
    \/ GetPropertyValue(LookupNames, {"Temp"})
    \/ UpdateSemanticId(LookupNames, PropertyNames, SemanticIds \ {PyNone})
    \/ Reset

SpecSubmodel == Init /\ [][NextSubmodel]_vars

\* The semantic references of two properties of one submodel, beside a concept
\* description that one of the two ids names.
NextSemantic ==
    \/ CreateAas({"urn:aas"}, {"motor"})
    \/ AddSubmodel({"urn:sm"}, {"Tech"})
    \/ AddProperty({"Tech"}, EditPropertyNames, {"float"}, {PyFloat(255)}, SemanticIds)
    \/ UpdateSemanticId({"Tech"}, EditPropertyNames, {PyStr("urn:cd"), PyStr("urn:x")})
    \/ AddConceptDescription({"urn:cd"}, {"Temperature"})
    \/ Reset

SpecSemantic == Init /\ [][NextSemantic]_vars

\* The conversation: messages with tool calls, and resets.
NextMessage ==
    \/ ProcessMessage(Responses, MaxHistory)
    \/ Reset

SpecMessage == Init /\ [][NextMessage]_vars

\* A long conversation without tool calls: the history is cut at
\* HistoryLimit entries, so no message is ever held back.
NextHistory ==
    \/ ProcessMessage(TextResponses, HistoryLimit + 1)
    \/ Reset

SpecHistory == Init /\ [][NextHistory]_vars

(***************************************************************************)
(* The properties.                                                         *)
(***************************************************************************)
\* The document of an agent: its Shell, submodels and concept descriptions.
Document(self) == <<self.aas, self.submodels, self.concept_descriptions>>

\* C1: every operation that returns a failure text leaves the Shell, the
\* submodels and the concept descriptions as they were, load_aas of a file
\* that holds no Shell ("No AAS found in file") included.
C1_FailureLeavesDocument ==
    [][last'.res.prefix = FAIL => Document(Self)' = Document(Self)]_vars

\* C2: execute_function raises for no operation name and no argument mapping;
\* for a name that function_map does not hold it returns the "Unknown function"
\* text and leaves the document and the files as they were.
C2_ExecuteFunctionNeverRaises ==
    [][/\ ~last'.raised
       /\ last'.op \notin function_map \cup {"reset_command"} =>
            /\ last'.res = Result(FAIL, "Unknown function", <<last'.op>>)
            /\ Document(Self)' = Document(Self)
            /\ files' = files]_vars

\* C2 happens: an exception left a handler of a document with a Shell and a
\* submodel, and execute_function returned the "Error executing" text.
C2_Witness ==
    /\ last.op \in function_map
    /\ last.res.kind = "Error executing"
    /\ aas.present
    /\ submodels # <<>>

\* What a round trip through a file is to keep: the Shell's id, short name and
\* global asset id, each submodel's id and short name, each element's name,
\* type, value and semantic id, each concept description's id, name and texts.
Content(self) ==
    [shell |-> <<self.aas.present, self.aas.id, self.aas.id_short,
                 self.aas.global_asset_id>>,
     submodels |-> {<<self.submodels[i].id, self.submodels[i].id_short>> :
                        i \in 1..Len(self.submodels)},
     elements |-> UNION {{<<self.submodels[i].id, e, self.submodels[i].submodel_element[e]>> :
                            e \in 1..Len(self.submodels[i].submodel_element)} :
                         i \in 1..Len(self.submodels)},
     concepts |-> {self.concept_descriptions[i] : i \in 1..Len(self.concept_descriptions)}]

\* C3: for every document with a Shell, save_aas and then load_aas of the
\* written file into a fresh agent gives a document of the same content.
C3_RoundTrip ==
    aas.present =>
        \A filename \in SaveNames :
            Content(load_aas(AASAgent(save_aas(Self, filename).files),
                             JsonName(filename)))
                = Content(Self)

\* C4: without a Shell (after __init__, after a reset, after loading a file
\* that holds no Shell) add_submodel returns the "No AAS exists" failure and
\* leaves the agent as it was, whatever the id and the short name.
C4_AddSubmodelNeedsShell ==
    ~aas.present =>
        \A submodel_id \in SubmodelIds, id_short \in SubmodelNames :
            add_submodel(Self, submodel_id, id_short) =
                Return(Self, Result(FAIL, "No AAS exists. Please create an AAS first.",
                                    <<>>))

\* C4 happens: add_submodel was refused on a document that holds a submodel
\* (loaded from a file without a Shell) and no Shell.
C4_Witness ==
    /\ ~aas.present
    /\ submodels # <<>>
    /\ last.op = "add_submodel"
    /\ last.res.kind = "No AAS exists. Please create an AAS first."

\* A text that is no number: neither an integer nor a decimal literal.
NotNumeric(v) ==
    /\ v.k = "str"
    /\ v.s \notin IntTexts \cup FloatTexts

\* C5: update_property of an int or float property with a text that is no
\* number returns a failure and leaves the stored value (the whole agent) as
\* it was.
C5_UnparseableUpdateFails ==
    \A submodel_id_short \in LookupNames, property_name \in EditPropertyNames,
       value \in EditValues :
        LET sm == FindSubmodel(submodels, submodel_id_short)
            i == IF sm = 0 THEN 0
                 ELSE get_object_by_attribute(submodels[sm].submodel_element,
                                              property_name)
            updated == update_property(Self, submodel_id_short, property_name, value)
        IN  (/\ sm # 0
             /\ i # 0
             /\ submodels[sm].submodel_element[i].value_type \in {"Int", "Float"}
             /\ NotNumeric(value)) =>
                /\ updated.res.prefix = FAIL
                /\ updated.submodels = submodels
                /\ Document(updated) = Document(Self)

\* C5 happens: update_property of an int property that holds 30 was called
\* with the text 'abc' and failed; the property still holds 30.
C5_Witness ==
    /\ last.op = "update_property"
    /\ last.res = Result(FAIL, "Error updating property",
                         <<"invalid literal for int() with base 10: 'abc'">>)
    /\ \E i \in 1..Len(submodels[1].submodel_element) :
            /\ submodels[1].submodel_element[i].value_type = "Int"
            /\ submodels[1].submodel_element[i].value = [k |-> "Int", n |-> 30, s |-> ""]

\* C6: a load_aas that succeeds replaces the whole document with the content
\* of the file: written out again, the loaded document is the file, whatever
\* the agent held before, and no file is changed.
C6_LoadReplacesDocument ==
    \A filename \in LoadNames :
        LET loaded == load_aas(Self, filename)
        IN  loaded.res.prefix = OK =>
                /\ write_aas_json_file(object_store(loaded)) = files[filename]
                /\ loaded.files = files

\* C6 happens: load_aas succeeded and the document is that of the file, with a
\* submodel, an element and a concept description.
C6_Witness ==
    /\ last.op = "load_aas"
    /\ last.res.kind = "Loaded"
    /\ aas.present
    /\ total_elements(submodels) > 0
    /\ concept_descriptions # <<>>
    /\ write_aas_json_file(object_store(Self)) = files[<<"out", ".json">>]

\* C7: create_aas replaces the Shell and nothing else: the submodels and the
\* concept descriptions are after the call what they were before it, and on
\* success the Shell is the new one, with no submodel reference.
C7_CreateAasReplacesOnlyShell ==
    \A aas_id \in AasIds, id_short \in ShellNames, global_asset_id \in AssetIds :
        LET created == create_aas(Self, aas_id, id_short, global_asset_id)
        IN  /\ created.submodels = submodels
            /\ created.concept_descriptions = concept_descriptions
            /\ created.files = files
            /\ created.res.prefix = OK =>
                    created.aas = [present |-> TRUE, id |-> aas_id, id_short |-> id_short,
                                   global_asset_id |-> global_asset_id,
                                   asset_kind |-> "INSTANCE", submodel |-> {}]
            /\ created.res.prefix # OK => created.aas = aas

\* C7 happens: create_aas succeeded on a document that held a Shell with a
\* submodel and a concept description; both are still there, under a Shell
\* that refers to no submodel.
C7_Witness ==
    /\ last.op = "create_aas"
    /\ last.res.prefix = OK
    /\ submodels # <<>>
    /\ concept_descriptions # <<>>
    /\ aas.submodel = {}

\* C8: the value every property stores is None or a value of the class the
\* property declares.
C8_ValueOfDeclaredType ==
    \A sm \in 1..Len(submodels) :
        \A i \in 1..Len(submodels[sm].submodel_element) :
            LET property_elem == submodels[sm].submodel_element[i]
            IN  property_elem.value.k \in {"NoneType", TypeName(property_elem.value_type)}

\* C8 happens: an int property was updated with the text '30' and holds the
\* Int 30, beside a boolean property that holds True.
C8_Witness ==
    /\ last.op = "update_property"
    /\ last.res.prefix = OK
    /\ submodels # <<>>
    /\ \E i, j \in 1..Len(submodels[1].submodel_element) :
            /\ submodels[1].submodel_element[i].value_type = "Int"
            /\ submodels[1].submodel_element[i].value = [k |-> "Int", n |-> 30, s |-> ""]
            /\ submodels[1].submodel_element[j].value_type = "Boolean"
            /\ submodels[1].submodel_element[j].value = PyBool(TRUE)

\* C9: for each tag t of string, int, float and boolean and each value v that
\* converts to t, add_property and then get_property_value of the new property
\* returns the converted v and the tag t.
C9_ReadBackValueAndTag ==
    \A property_name \in EditPropertyNames, tag \in DOMAIN type_map,
       value \in EditValues \ {PyNone} :
        LET added == add_property(Self, "Tech", property_name, tag, value, NoText)
            read == get_property_value(added, "Tech", property_name)
        IN  added.res.prefix = OK =>
                read.res = Result(PIN, "=",
                                  <<property_name, str(convert(type_map[tag], value).val),
                                    tag>>)

\* C10: whenever a Shell exists save_aas succeeds and writes the file; the
\* absence of a Shell is the only state of the document in which it fails.
C10_SaveSucceedsWithShell ==
    \A filename \in SaveNames :
        LET saved == save_aas(Self, filename)
        IN  /\ aas.present <=> saved.res.prefix = OK
            /\ aas.present => saved.files[JsonName(filename)].exists

\* C11: without a Shell save_aas returns the "No AAS to save" failure and
\* neither creates nor changes a file, also when the agent holds submodels or
\* concept descriptions.
C11_SaveNeedsShell ==
    ~aas.present =>
        \A filename \in SaveNames :
            save_aas(Self, filename) = Return(Self, Result(FAIL, "No AAS to save", <<>>))

\* C11 happens: save_aas was refused on an agent that holds a submodel (loaded
\* from a file without a Shell) and no Shell; no file out.json exists.
C11_Witness ==
    /\ ~aas.present
    /\ submodels # <<>>
    /\ last.op = "save_aas"
    /\ last.res.kind = "No AAS to save"
    /\ ~files[<<"out", ".json">>].exists

\* C12: load_aas of a path that holds no file, or of a file that is no JSON,
\* returns a failure and leaves the Shell, the submodels and the concept
\* descriptions (and the files) as they were.
C12_FailedLoadLeavesDocument ==
    \A filename \in LoadNames :
        (~files[filename].exists \/ ~files[filename].wellformed) =>
            LET loaded == load_aas(Self, filename)
            IN  /\ loaded.res.prefix = FAIL
                /\ loaded.res.kind \in {"File not found", "Error loading"}
                /\ Document(loaded) = Document(Self)
                /\ loaded.files = files

\* C12 happens: load_aas of the file that is no JSON failed on an agent that
\* holds a Shell, a submodel and a concept description.
C12_Witness ==
    /\ last.op = "load_aas"
    /\ last.res.kind = "Error loading"
    /\ aas.present
    /\ submodels # <<>>
    /\ concept_descriptions # <<>>

\* The indices of the elements of a submodel that have the short name.
Named(sm, property_name) ==
    {i \in 1..Len(sm.submodel_element) : sm.submodel_element[i].id_short = property_name}

\* C13 as stated: add_property of a name the submodel already holds succeeds,
\* the submodel then holds two elements of that name, and get_property_value
\* by the name still reads the one added first.
C13_DuplicateAddSucceeds ==
    \A property_name \in EditPropertyNames, tag \in DOMAIN type_map,
       value \in EditValues :
        LET sm == FindSubmodel(submodels, "Tech")
            added == add_property(Self, "Tech", property_name, tag, value, NoText)
        IN  (/\ sm # 0
             /\ Named(submodels[sm], property_name) # {}
             /\ (value = PyNone \/ convert(type_map[tag], value).ok)) =>
                /\ added.res.prefix = OK
                /\ Cardinality(Named(added.submodels[sm], property_name)) = 2
                /\ get_property_value(added, "Tech", property_name).res
                     = get_property_value(Self, "Tech", property_name).res

\* C13, amended: add_property of a name the submodel already holds fails and
\* leaves the agent as it was, so no submodel holds two elements of one name
\* and a lookup by name finds the only element of that name.
C13_DuplicateAddFails ==
    /\ \A sm \in 1..Len(submodels) :
            \A i, j \in 1..Len(submodels[sm].submodel_element) :
                submodels[sm].submodel_element[i].id_short
                    = submodels[sm].submodel_element[j].id_short => i = j
    /\ \A property_name \in EditPropertyNames, tag \in EditValueTypes,
          value \in EditValues :
            LET sm == FindSubmodel(submodels, "Tech")
                added == add_property(Self, "Tech", property_name, tag, value, NoText)
            IN  (sm # 0 /\ Named(submodels[sm], property_name) # {}) =>
                    /\ added.res.prefix = FAIL
                    /\ added = Return(Self, added.res)

\* C13 happens: add_property of the name Temp was refused because the
\* submodel holds a Temp; it holds one Temp, with the value it had.
C13_Witness ==
    /\ last.op = "add_property"
    /\ last.res = Result(FAIL, "Error adding property", <<AlreadyPresent("Temp")>>)
    /\ submodels # <<>>
    /\ Cardinality(Named(submodels[1], "Temp")) = 1

\* C14: with a Shell, add_submodel of an id the mapping holds succeeds and
\* overwrites: the mapping keeps its keys, their order and its size, the other
\* entries stay, and the entry of the id is a new submodel with the given short
\* name and no element.
C14_AddSubmodelOverwrites ==
    aas.present =>
        \A i \in 1..Len(submodels), id_short \in LookupNames :
            LET added == add_submodel(Self, submodels[i].id, id_short)
            IN  /\ added.res = Result(OK, "Added submodel", <<id_short>>)
                /\ Len(added.submodels) = Len(submodels)
                /\ DictKeys(added.submodels) = DictKeys(submodels)
                /\ \A j \in 1..Len(submodels) :
                        added.submodels[j] =
                            IF j = i
                            THEN [id |-> submodels[i].id, id_short |-> id_short,
                                  submodel_element |-> <<>>]
                            ELSE submodels[j]

\* C14 happens: the last call added a submodel Ops; of the two submodels the
\* second is a Tech that holds an element, so it is the first, older entry
\* that the call replaced, by an Ops without elements.
C14_Witness ==
    /\ last.op = "add_submodel"
    /\ last.res = Result(OK, "Added submodel", <<"Ops">>)
    /\ Len(submodels) = 2
    /\ submodels[1].id_short = "Ops"
    /\ submodels[1].submodel_element = <<>>
    /\ submodels[2].id_short = "Tech"
    /\ submodels[2].submodel_element # <<>>

\* The messages of the failure outcomes: no Shell, submodel not found, property
\* not found (the KeyError text of an "Error ..." message), not a Property,
\* invalid type, invalid value, file not found, malformed file, unknown
\* operation, and every exception a handler or the dispatcher catches.
Failures ==
    {"No AAS exists. Please create an AAS first.", "No AAS to save", "No AAS available",
     "No AAS available to export", "No AAS found in file", "Submodel not found",
     "Element is not a Property", "Invalid value type", "File not found",
     "Unknown function", "Error creating AAS", "Error adding submodel",
     "Error adding property", "Error updating property", "Error getting property",
     "Error updating semantic ID", "Error adding concept description", "Error saving",
     "Error loading", "Error generating JSON", "Error executing"}

\* C15: every text returned through execute_function carries the failure
\* prefix if it is the text of a failure outcome, and does not carry it if it
\* is the text of a success.
C15_FailurePrefix ==
    last.op \in function_map \cup UnknownFunctions =>
        (last.res.kind \in Failures <=> last.res.prefix = FAIL)

\* The calls of the query operations.
QueryCalls ==
    {[fn |-> fn, arguments |-> <<>>] :
        fn \in {"get_current_state", "get_tree_view", "get_digital_twin_json"}}
    \cup {[fn |-> "get_property_value",
           arguments |-> [submodel_id_short |-> PyStr(submodel_id_short),
                          property_name |-> PyStr(property_name)]] :
            submodel_id_short \in LookupNames, property_name \in PropertyNames}

\* C16: get_current_state, get_tree_view, get_property_value and
\* get_digital_twin_json leave the Shell, the submodels with their elements,
\* the concept descriptions and the files as they were, in every state, whether
\* they succeed or fail; the same call made again at once returns the same text.
C16_QueriesChangeNothing ==
    \A call \in QueryCalls :
        LET first == execute_function(Self, call.fn, call.arguments)
            second == execute_function(first, call.fn, call.arguments)
        IN  /\ Document(first) = Document(Self)
            /\ first.files = files
            /\ second.res = first.res

\* C16 happens: get_tree_view drew a document with a Shell, a submodel with an
\* element and a concept description.
C16_Witness ==
    /\ last.op = "get_tree_view"
    /\ last.res.kind = "Asset Administration Shell"
    /\ total_elements(submodels) > 0
    /\ concept_descriptions # <<>>

\* C17: for every id, well-formed short name and global asset id, in every
\* state, create_aas succeeds and a get_current_state that follows it reports
\* that id and that short name, whatever Shell the agent had before.
C17_CreateThenState ==
    \A aas_id \in AasIds, id_short \in ShellNames, global_asset_id \in AssetIds :
        ValidIdShort(id_short) =>
            LET created == execute_function(Self, "create_aas",
                                [aas_id |-> PyStr(aas_id), id_short |-> PyStr(id_short),
                                 global_asset_id |-> PyStr(global_asset_id)])
                state == execute_function(created, "get_current_state", <<>>)
            IN  /\ created.res = Result(OK, "Created AAS", <<id_short, aas_id>>)
                /\ state.res.kind = "Current AAS"
                /\ state.res.out[1] = "Current AAS: " \o id_short \o " (" \o aas_id \o ")"
                /\ state.res.out[2] = "Asset ID: " \o global_asset_id

\* C17 happens: get_current_state reports the Shell urn:x of a document whose
\* submodel is older than the Shell (the Shell refers to no submodel).
C17_Witness ==
    /\ last.op = "get_current_state"
    /\ last.res.kind = "Current AAS"
    /\ last.res.out[1] = "Current AAS: motor (urn:x)"
    /\ aas.id = "urn:x"
    /\ submodels # <<>>
    /\ aas.submodel = {}

\* C18: in every state without a Shell get_tree_view, called through
\* execute_function, returns the "No AAS available" text and raises nothing,
\* also when the agent holds submodels.
C18_TreeViewWithoutShell ==
    ~aas.present =>
        execute_function(Self, "get_tree_view", <<>>)
            = Return(Self, Result(FAIL, "No AAS available", <<>>))

\* C18 happens: get_tree_view returned "No AAS available" on an agent that
\* holds a submodel (loaded from a file without a Shell) and no Shell.
C18_Witness ==
    /\ ~aas.present
    /\ submodels # <<>>
    /\ last.op = "get_tree_view"
    /\ last.res = Result(FAIL, "No AAS available", <<>>)
    /\ ~last.raised

\* What C19 takes for true: the boolean True, and every input whose text in
\* lower case is "true", "t", "yes" or "1".
ReadsTrue(value) ==
    IF value.k = "bool" THEN value = PyBool(TRUE)
    ELSE lower(str(value)) \in {"true", "t", "yes", "1"}

\* C19: for a boolean property the conversion never fails. add_property of a
\* new, well-formed name with a value, and update_property of a boolean
\* property with any input, succeed and store True if the input reads true
\* and False for every other input, other text included.
C19_BooleanNeverFails ==
    \A property_name \in EditPropertyNames, value \in EditValues :
        LET sm == FindSubmodel(submodels, "Tech")
            elements == submodels[sm].submodel_element
            i == get_object_by_attribute(elements, property_name)
            added == add_property(Self, "Tech", property_name, "boolean", value, NoText)
            updated == update_property(Self, "Tech", property_name, value)
        IN  sm # 0 =>
                /\ (i = 0 /\ ValidIdShort(property_name) /\ value # PyNone) =>
                        /\ added.res.prefix = OK
                        /\ added.submodels[sm].submodel_element[Len(elements) + 1].value
                             = PyBool(ReadsTrue(value))
                /\ (i # 0 /\ elements[i].value_type = "Boolean") =>
                        /\ updated.res.prefix = OK
                        /\ updated.submodels[sm].submodel_element[i].value
                             = PyBool(ReadsTrue(value))

\* C19 happens: update_property of the boolean property Flag, which held True,
\* succeeded and stored False.
C19_Witness ==
    /\ last.op = "update_property"
    /\ last.res = Result(OK, "Updated", <<"Flag", "True", "False">>)
    /\ submodels # <<>>
    /\ \E i \in Named(submodels[1], "Flag") :
            /\ submodels[1].submodel_element[i].value_type = "Boolean"
            /\ submodels[1].submodel_element[i].value = PyBool(FALSE)

\* The short name and the declared value type of every element.
Types(self) ==
    [sm \in 1..Len(self.submodels) |->
        [i \in 1..Len(self.submodels[sm].submodel_element) |->
            <<self.submodels[sm].submodel_element[i].id_short,
              self.submodels[sm].submodel_element[i].value_type>>]]

\* C20: no update_property and no update_semantic_id changes the declared
\* value type of an element, so over any sequence of them the type stays the
\* one of add_property; and update_property converts its input with that
\* type: the text "30" is stored as 30.0 in a float property and as 30 in an
\* int property.
C20_TypeNeverChanges ==
    \A property_name \in EditPropertyNames, value \in EditValues :
        LET sm == FindSubmodel(submodels, "Tech")
            i == IF sm = 0 THEN 0
                 ELSE get_object_by_attribute(submodels[sm].submodel_element,
                                              property_name)
            updated == update_property(Self, "Tech", property_name, value)
            marked == update_semantic_id(Self, "Tech", property_name, "urn:cd")
        IN  /\ Types(updated) = Types(Self)
            /\ Types(marked) = Types(Self)
            /\ (i # 0 /\ value = PyStr("30")) =>
                    LET value_type == submodels[sm].submodel_element[i].value_type
                        stored == updated.submodels[sm].submodel_element[i].value
                    IN  /\ updated.res.prefix = OK
                        /\ value_type = "Float" => stored = [k |-> "Float", n |-> 300, s |-> ""]
                        /\ value_type = "Int" => stored = [k |-> "Int", n |-> 30, s |-> ""]
                        /\ value_type = "String" => stored = PyStr("30")
                        /\ value_type = "Boolean" => stored = PyBool(FALSE)

\* C20 happens: update_property changed the float property Temp from 25.5 to
\* 30.0, and Temp is still a float property.
C20_Witness ==
    /\ last.op = "update_property"
    /\ last.res = Result(OK, "Updated", <<"Temp", "25.5", "30.0">>)
    /\ submodels # <<>>
    /\ \E i \in Named(submodels[1], "Temp") :
            /\ submodels[1].submodel_element[i].value_type = "Float"
            /\ submodels[1].submodel_element[i].value = [k |-> "Float", n |-> 300, s |-> ""]

\* C21: the reset command, from every state, leaves no Shell, no submodel, no
\* concept description and an empty conversation history, and leaves every
\* file as it was.
C21_ResetEmpties ==
    [][last'.op = "reset_command" =>
            /\ aas' = NoAas
            /\ submodels' = <<>>
            /\ concept_descriptions' = <<>>
            /\ conversation_history' = <<>>
            /\ files' = files]_vars

\* C21 happens: after a reset the agent is empty and the file that an earlier
\* save_aas wrote is still there.
C21_Witness ==
    /\ last.op = "reset_command"
    /\ aas = NoAas
    /\ submodels = <<>>
    /\ conversation_history = <<>>
    /\ files[<<"out", ".json">>].exists
    /\ Len(files[<<"out", ".json">>].submodels) = 1

\* C22: a successful add_submodel puts the submodel into the mapping under its
\* id and a reference to the id among the Shell's references; no submodel of
\* another id and no concept description changes.
C22_AddSubmodelInsertsAndRefers ==
    \A submodel_id \in SubmodelIds, id_short \in SubmodelNames \cup LookupNames :
        LET added == add_submodel(Self, submodel_id, id_short)
        IN  added.res.prefix = OK =>
                /\ \E i \in 1..Len(added.submodels) :
                        added.submodels[i] = [id |-> submodel_id, id_short |-> id_short,
                                              submodel_element |-> <<>>]
                /\ added.aas.submodel = aas.submodel \cup {submodel_id}
                /\ added.aas = [aas EXCEPT !.submodel = added.aas.submodel]
                /\ \A i \in 1..Len(submodels) :
                        submodels[i].id # submodel_id =>
                            \E j \in 1..Len(added.submodels) :
                                added.submodels[j] = submodels[i]
                /\ DictKeys(added.submodels) = DictKeys(submodels) \cup {submodel_id}
                /\ added.concept_descriptions = concept_descriptions

\* C22 happens: the last call added a second submodel to a document that holds
\* a concept description; the first submodel kept its element and the Shell
\* refers to both ids.
C22_Witness ==
    /\ last.op = "add_submodel"
    /\ last.res.prefix = OK
    /\ Len(submodels) = 2
    /\ submodels[1].submodel_element # <<>>
    /\ submodels[2].submodel_element = <<>>
    /\ concept_descriptions # <<>>
    /\ aas.submodel = {submodels[1].id, submodels[2].id}

\* C23: in every state with a Shell, the ids of the submodels the Shell refers
\* to are the keys of the submodel mapping, also after a second create_aas
\* that follows an add_submodel.
C23_ReferencesAreKeys ==
    aas.present => aas.submodel = DictKeys(submodels)

\* The agent whose only submodel is the i-th of this one.
Alone(i) == [Self EXCEPT !.submodels = <<submodels[i]>>]

\* What an element operation makes of a document whose first submodel of the
\* short name is the i-th: the text it returns for that submodel alone, and
\* that submodel changed as it changes alone, every other one as it was.
ResolvesTo(i, called, alone) ==
    /\ called.res = alone.res
    /\ called.submodels = [submodels EXCEPT ![i] = alone.submodels[1]]

\* C24: where several submodels have the same short name, add_property,
\* update_property, get_property_value and update_semantic_id act on the first
\* of them in insertion order, and change no other submodel.
C24_FirstOfAName ==
    \A i \in 1..Len(submodels) :
        (\A j \in 1..(i - 1) : submodels[j].id_short # submodels[i].id_short) =>
            \A property_name \in PropertyNames \cup EditPropertyNames :
                LET name == submodels[i].id_short
                IN  /\ \A value_type \in ValueTypes, value \in Values :
                            ResolvesTo(i, add_property(Self, name, property_name,
                                                       value_type, value, NoText),
                                       add_property(Alone(i), name, property_name,
                                                    value_type, value, NoText))
                    /\ \A value \in Values \cup {PyFloat(170)} :
                            ResolvesTo(i, update_property(Self, name, property_name, value),
                                       update_property(Alone(i), name, property_name, value))
                    /\ ResolvesTo(i, get_property_value(Self, name, property_name),
                                  get_property_value(Alone(i), name, property_name))
                    /\ ResolvesTo(i, update_semantic_id(Self, name, property_name, "urn:cd"),
                                  update_semantic_id(Alone(i), name, property_name,
                                                     "urn:cd"))

\* C24 happens: of two submodels named Tech the first holds an element and the
\* second none, and the last call, on Tech, gave the element a semantic id.
C24_Witness ==
    /\ last.op = "update_semantic_id"
    /\ last.res.prefix = OK
    /\ Len(submodels) = 2
    /\ submodels[1].id_short = submodels[2].id_short
    /\ Len(submodels[1].submodel_element) = 1
    /\ submodels[1].submodel_element[1].semantic_id = "urn:cd"
    /\ submodels[2].submodel_element = <<>>

\* C25: update_semantic_id on a property makes the given id the property's one
\* semantic reference, for an id that is the key of a concept description and
\* for one that is not; the property's value and type, every other element,
\* the Shell and the concept descriptions stay as they were.
C25_SemanticIdReplaced ==
    \A sm \in 1..Len(submodels) :
        \A i \in 1..Len(submodels[sm].submodel_element) :
            \A semantic_id \in {"urn:cd", "urn:x"} :
                LET property_elem == submodels[sm].submodel_element[i]
                    updated == update_semantic_id(Self, submodels[sm].id_short,
                                                  property_elem.id_short, semantic_id)
                IN  (/\ FindSubmodel(submodels, submodels[sm].id_short) = sm
                     /\ property_elem.model_type = "Property") =>
                        /\ updated.res.prefix = OK
                        /\ updated.submodels[sm].submodel_element[i] =
                                [property_elem EXCEPT !.semantic_id = semantic_id]
                        /\ \A t \in 1..Len(submodels) :
                                \A j \in 1..Len(submodels[t].submodel_element) :
                                    <<t, j>> # <<sm, i>> =>
                                        updated.submodels[t].submodel_element[j] =
                                            submodels[t].submodel_element[j]
                        /\ updated.aas = aas
                        /\ updated.concept_descriptions = concept_descriptions

\* C25 happens: the last call gave the second of two properties an id that no
\* concept description has; the first property has the id of the concept
\* description, and the second its value 25.5.
C25_Witness ==
    /\ last.op = "update_semantic_id"
    /\ last.res = Result(OK, "Updated semantic ID", <<"Flag", "urn:x">>)
    /\ DictKeys(concept_descriptions) = {"urn:cd"}
    /\ Len(submodels) = 1
    /\ Len(submodels[1].submodel_element) = 2
    /\ submodels[1].submodel_element[1].semantic_id = "urn:cd"
    /\ submodels[1].submodel_element[2].id_short = "Flag"
    /\ submodels[1].submodel_element[2].semantic_id = "urn:x"
    /\ str(submodels[1].submodel_element[2].value) = "25.5"

\* C26: add_concept_description of a well-formed short name succeeds with and
\* without a Shell; the mapping then holds the new entry under the id, one
\* entry for each id, and every entry of another id as before; the Shell and
\* the submodels are as they were.
C26_ConceptInsertedById ==
    /\ Len(concept_descriptions) = Cardinality(DictKeys(concept_descriptions))
    /\ \A concept_id \in ConceptIds, id_short \in ConceptNames,
          preferred_name \in {NoText, "Temperature"} :
            LET added == add_concept_description(Self, concept_id, id_short,
                                                 preferred_name, NoText)
                concepts == added.concept_descriptions
            IN  /\ added.aas = aas
                /\ added.submodels = submodels
                /\ ValidIdShort(id_short) =>
                        /\ added.res.prefix = OK
                        /\ DictKeys(concepts) = DictKeys(concept_descriptions) \cup {concept_id}
                        /\ Len(concepts) = Cardinality(DictKeys(concepts))
                        /\ \E i \in 1..Len(concepts) :
                                concepts[i] = [id |-> concept_id, id_short |-> id_short,
                                               display_name |-> preferred_name,
                                               description |-> NoText]
                        /\ \A i \in 1..Len(concept_descriptions) :
                                concept_descriptions[i].id # concept_id =>
                                    \E j \in 1..Len(concepts) :
                                        concepts[j] = concept_descriptions[i]

\* C26 happens: the last call added a concept description with a display name
\* to an agent without a Shell that holds submodels; the mapping holds two
\* entries, of which the first has no display name.
C26_Witness ==
    /\ last.op = "add_concept_description"
    /\ last.res = Result(OK, "Added concept description", <<"Temperature", "Temperature">>)
    /\ ~aas.present
    /\ submodels # <<>>
    /\ Len(concept_descriptions) = 2
    /\ concept_descriptions[1].id = "urn:cd"
    /\ concept_descriptions[1].display_name = NoText
    /\ concept_descriptions[2].display_name = "Temperature"

\* The four tags of the catalog of operations.
CatalogTags == {"string", "int", "float", "boolean"}

\* C27 as the specification states it: add_property of a tag that is not one of
\* the four tags of the catalog returns the invalid-type text and appends
\* nothing, and for a submodel that does not exist the submodel-not-found text.
C27_UnknownTagFails ==
    \A submodel_id_short \in LookupNames, property_name \in PropertyNames,
       value_type \in ValueTypes \ CatalogTags, value \in Values \cup {PyNone} :
        LET added == add_property(Self, submodel_id_short, property_name, value_type,
                                  value, NoText)
        IN  /\ added.submodels = submodels
            /\ added.res =
                    IF \E i \in 1..Len(submodels) : submodels[i].id_short = submodel_id_short
                    THEN Result(FAIL, "Invalid value type", <<value_type>>)
                    ELSE Result(FAIL, "Submodel not found", <<submodel_id_short>>)

\* C27: add_property of a tag that in lower case is not one of the four tags
\* of the catalog returns the invalid-type text and appends nothing; a tag that
\* in lower case is one of the four is not refused as invalid; for a submodel
\* that does not exist the text is submodel-not-found, whatever the tag.
C27_UnknownLowerCaseTagFails ==
    \A submodel_id_short \in LookupNames, property_name \in PropertyNames,
       value_type \in ValueTypes \cup CatalogTags, value \in Values \cup {PyNone} :
        LET added == add_property(Self, submodel_id_short, property_name, value_type,
                                  value, NoText)
        IN  IF \A i \in 1..Len(submodels) : submodels[i].id_short # submodel_id_short
            THEN /\ added.res = Result(FAIL, "Submodel not found", <<submodel_id_short>>)
                 /\ added.submodels = submodels
            ELSE IF lower(value_type) \notin CatalogTags
            THEN /\ added.res = Result(FAIL, "Invalid value type", <<value_type>>)
                 /\ added.submodels = submodels
            ELSE added.res.kind # "Invalid value type"

\* C27 happens: the last call asked for a property of the type text in a
\* submodel that exists, got the invalid-type text, and the submodel holds no
\* element.
C27_Witness ==
    /\ last.op = "add_property"
    /\ last.res = Result(FAIL, "Invalid value type", <<"text">>)
    /\ Len(submodels) = 1
    /\ submodels[1].id_short = "Tech"
    /\ submodels[1].submodel_element = <<>>

\* C28: a save_aas that succeeds, of the name out as of the name out.json,
\* makes the file out.json the current document, whatever that file was
\* before, and leaves every other path as it was; no file exists under the
\* bare name out.
C28_SaveNormalisesName ==
    /\ ~files[<<"out">>].exists
    /\ \A filename \in SaveNames :
            LET saved == save_aas(Self, filename)
            IN  saved.res.prefix = OK =>
                    /\ saved.files[<<"out", ".json">>] = write_aas_json_file(object_store(Self))
                    /\ saved.files[<<"out", ".json">>].exists
                    /\ \A path \in DOMAIN files \ {<<"out", ".json">>} :
                            saved.files[path] = files[path]
                    /\ DOMAIN saved.files = DOMAIN files

\* C28 happens: the last call saved a document with a submodel and a concept
\* description; the file out.json holds it and no file out exists.
C28_Witness ==
    /\ last.op = "save_aas"
    /\ last.res.prefix = OK
    /\ submodels # <<>>
    /\ concept_descriptions # <<>>
    /\ files[<<"out", ".json">>] = write_aas_json_file(object_store(Self))
    /\ ~files[<<"out">>].exists

\* C29: for each file name, load_aas of the name right after a save_aas of it
\* that succeeded succeeds too, and the document is the one saved.
C29_LoadAfterSaveOfSameName ==
    \A filename \in SaveNames :
        LET saved == save_aas(Self, filename)
            loaded == load_aas(saved, filename)
        IN  saved.res.prefix = OK =>
                /\ loaded.res.prefix = OK
                /\ Content(loaded) = Content(Self)

\* One tool call, as execute_function takes it.
Call(self, tool_call) == execute_function(self, tool_call.name, tool_call.arguments)

\* C30: a message answered with tool calls whose arguments are JSON has each
\* call dispatched once, the first on the agent as it is and every later one
\* on the agent the call before it left, whether or not a call returns a
\* failure text; the agent after the message is the one the last call left,
\* and the results are those of the calls in their order.
C30_CallsInOrder ==
    \A response \in Responses :
        (/\ response.ok
         /\ response.tool_calls # <<>>
         /\ \A i \in 1..Len(response.tool_calls) : response.tool_calls[i].parses) =>
            LET processed == process_message(Self, conversation_history, "please", response)
                calls == Len(response.tool_calls)
                after[i \in 0..calls] ==
                    IF i = 0 THEN Return(Self, Result("", "", <<>>))
                    ELSE Call(after[i - 1], response.tool_calls[i])
            IN  /\ processed.function_results = [i \in 1..calls |-> after[i].res]
                /\ Document(processed) = Document(after[calls])
                /\ processed.files = after[calls].files

\* C30 happens: of the two calls of the last message the first, add_submodel,
\* failed for want of a Shell and the second, create_aas, succeeded: the agent
\* has the Shell, and no submodel, as the first call was not made again.
C30_Witness ==
    /\ last.op = "process_message"
    /\ last.res.kind = "done"
    /\ last.res.out = <<"No AAS exists. Please create an AAS first.", "Created AAS">>
    /\ aas.present
    /\ submodels = <<>>
    /\ conversation_history # <<>>

\* C31: the history holds at most 20 entries, and every add_to_history leaves
\* the entries added last, at most 20 of them, in the order they were added:
\* the history it makes is the end of the old history with the new entry put
\* after it.
C31_HistoryKeepsTheLatest ==
    /\ Len(conversation_history) <= 20
    /\ \A role \in {"user", "assistant"}, content \in UserMessages \cup Answers :
            LET entry == [role |-> role, content |-> content]
                added == add_to_history(conversation_history, role, content)
                dropped == Len(conversation_history) + 1 - Len(added)
            IN  /\ Len(added) = IF Len(conversation_history) < 20
                                THEN Len(conversation_history) + 1 ELSE 20
                /\ added[Len(added)] = entry
                /\ \A i \in 1..(Len(added) - 1) :
                        added[i] = conversation_history[i + dropped]

\* C31 happens: the history holds 20 entries of which the first is an answer,
\* so the question before that answer was dropped, and the last two are the
\* question and the answer of the last message.
C31_Witness ==
    /\ last.op = "process_message"
    /\ Len(conversation_history) = 20
    /\ conversation_history[1].role = "assistant"
    /\ conversation_history[19] = [role |-> "user", content |-> "please"]
    /\ conversation_history[20] = [role |-> "assistant", content |-> "done"]

====
